---------------------------- MODULE Spec2Model ----------------------------
(***************************************************************************)
(* A model of the traversalgroup core: the heap-based priority queue       *)
(* (priority_queue.py), the least-recently-used cache built on it          *)
(* (cache.py) and the group closure (functions.py).                        *)
(*                                                                         *)
(* The Python list heap.items holds a dummy at index 0; the sequences      *)
(* below hold heap.items[1:], so that position i of a sequence is index i  *)
(* of the Python list and len(heap.items) is Len(items) + 1.               *)
(***************************************************************************)
EXTENDS Integers, Sequences, FiniteSets, TLC

(***************************************************************************)
(* Bounds of the model.                                                    *)
(***************************************************************************)
MaxHeap == 6       \* most items held by the integer priority queue
MaxVal == 7        \* integers put into the priority queue are 0..MaxVal-1

VARIABLES
    pq,            \* PriorityQueue.heap.items[1:] of the integer queue
    live,          \* ghost: how often each integer is held (inserted, not deleted)
    draining,      \* TRUE once items(pq) has started popping
    popped,        \* the sequence yielded so far by items(pq)
    deleted,       \* ghost: delete(i) has been called
    pqlast         \* ghost: the latest call and the branch delete took

pqvars == <<pq, live, draining, popped, deleted, pqlast>>

VARIABLES
    items,         \* LRUCache.items: key -> [index, value]
    oldest,        \* LRUCache.oldest.heap.items[1:], records [key, timestamp]
    numitems,      \* LRUCache.numitems
    maxsize,       \* LRUCache.maxsize
    clock,         \* the latest value time.time() has returned
    pure,          \* ghost: only inserts of keys never inserted before so far
    seen,          \* ghost: while pure, the keys inserted; {} afterwards
    include_nones, \* the flag lru_cache was given
    ret,           \* what the latest call of the wrapper cached() returned
    invoked        \* how often the latest call of cached() called func

cachevars == <<items, oldest, numitems, maxsize, clock, pure, seen,
               include_nones, ret, invoked>>

VARIABLES
    gens,          \* generate_group: the generators given
    new,           \* generate_group: new
    group,         \* generate_group: group
    computed,      \* generate_group: computed
    todo,          \* the generators the loop "for elt in gens" has yet to take
    gpc,           \* where generate_group is: "idle", "call", "round" or "done"
    before,        \* ghost: group as it was when the round began
    rounds,        \* ghost: the rounds completed
    call,          \* ghost: which call of generate_group this is (0: none)
    first          \* ghost: what the first call returned

groupvars == <<gens, new, group, computed, todo, gpc, before, rounds,
               call, first>>

VARIABLES
    orig,          \* the object a function of functions.py or serialize.py was first given
    cur,           \* the object the last function applied returned (or the state of its loop)
    trail,         \* the functions applied so far, in order
    scipy          \* graph.py: whether "from scipy.misc import comb" succeeded

codecvars == <<orig, cur, trail, scipy>>

vars == <<pqvars, cachevars, groupvars, codecvars>>

(***************************************************************************)
(* Heap (priority_queue.py).  ev names the key function self.eval:         *)
(* "id" is the default key (the item itself), "timestamp" is the key the   *)
(* cache passes (item['timestamp']).                                       *)
(***************************************************************************)
eval(ev, item) == IF ev = "id" THEN item ELSE item.timestamp

swap(its, i, j) == [its EXCEPT ![i] = its[j], ![j] = its[i]]

RECURSIVE heapify_up(_, _, _)
heapify_up(its, i, ev) ==
    IF i > 1
    THEN LET j == i \div 2 IN
         IF eval(ev, its[i]) < eval(ev, its[j])
         THEN heapify_up(swap(its, i, j), j, ev)
         ELSE [items |-> its, index |-> i]
    ELSE [items |-> its, index |-> i]

\* heapify_down that never looks at the right child
RECURSIVE heapify_down_left(_, _, _)
heapify_down_left(its, i, ev) ==
    LET n == Len(its) + 1 IN
    IF 2 * i >= n
    THEN [items |-> its, index |-> i]
    ELSE LET j == 2 * i
         IN IF eval(ev, its[j]) < eval(ev, its[i])
            THEN heapify_down_left(swap(its, i, j), j, ev)
            ELSE [items |-> its, index |-> i]

RECURSIVE heapify_down(_, _, _)
heapify_down(its, i, ev) ==
    LET n == Len(its) + 1 IN
    IF 2 * i >= n
    THEN [items |-> its, index |-> i]
    ELSE LET j == IF 2 * i + 1 < n
                  THEN IF eval(ev, its[2 * i + 1]) < eval(ev, its[2 * i])
                       THEN 2 * i + 1
                       ELSE 2 * i
                  ELSE 2 * i
         IN IF eval(ev, its[j]) < eval(ev, its[i])
            THEN heapify_down(swap(its, i, j), j, ev)
            ELSE [items |-> its, index |-> i]

(***************************************************************************)
(* PriorityQueue (priority_queue.py).  Each operator gives the new list    *)
(* and the value the method returns.                                       *)
(***************************************************************************)
put(its, item, ev) ==
    LET end == Len(its) + 1
        r == heapify_up(Append(its, item), end, ev)
    IN [items |-> r.items, index |-> r.index]

pop(its) == SubSeq(its, 1, Len(its) - 1)

\* which branch of delete (lines 76-86) slot i takes
delete_branch(its, i, ev) ==
    IF i = Len(its) THEN "last"
    ELSE IF i = 1 THEN "root"
    ELSE IF eval(ev, its[Len(its)]) < eval(ev, its[i \div 2]) THEN "up"
    ELSE "down"

\* delete with the sift direction always downwards
delete_down_only(its, i, ev) ==
    IF i = Len(its)
    THEN [items |-> pop(its), deleted |-> its[i]]
    ELSE LET moved == [pop(its) EXCEPT ![i] = its[Len(its)]]
         IN [items |-> heapify_down(moved, i, ev).items, deleted |-> its[i]]

delete(its, i, ev) ==
    IF i = Len(its)
    THEN [items |-> pop(its), deleted |-> its[i]]
    ELSE LET moved == [pop(its) EXCEPT ![i] = its[Len(its)]]
             after == IF i = 1
                      THEN heapify_down(moved, i, ev)
                      ELSE IF eval(ev, moved[i]) < eval(ev, moved[i \div 2])
                           THEN heapify_up(moved, i, ev)
                           ELSE heapify_down(moved, i, ev)
         IN [items |-> after.items, deleted |-> its[i]]

\* get that pops the end of the list instead of the root
get_newest(its, ev) == [items |-> pop(its), top |-> its[Len(its)]]

get(its, ev) ==
    LET r == delete(its, 1, ev)
    IN [items |-> r.items, top |-> its[1]]

empty(its) == Len(its) + 1 = 1

Range(s) == {s[i] : i \in 1..Len(s)}

(***************************************************************************)
(* LRUCache (cache.py).  A cache is the record of the object's fields;     *)
(* each method gives the cache it leaves, the exception it raised ("none"  *)
(* when it returned) and, for insert, the record it threw away.  A method  *)
(* that raises leaves the fields as they were at the raise.                *)
(***************************************************************************)
MaxCap == 2        \* maxsize of the cache is 1..MaxCap
NKeys == 4         \* the keys given to the cache directly are 1..NKeys
MaxTime == 2       \* time.time() returns 0..MaxTime

None == "None"
Values == {None, "a"}

dict_del(d, k) == [x \in DOMAIN d \ {k} |-> d[x]]

dict_set(d, k, v) == [x \in DOMAIN d \cup {k} |-> IF x = k THEN v ELSE d[x]]

LRUCache(m) ==
    [items |-> <<>>, oldest |-> <<>>, maxsize |-> m, numitems |-> 0]

\* insert that evicts only once the cache is over its capacity
insert_over(c, key, value, now) ==
    LET full == c.numitems > c.maxsize
        g == get(c.oldest, "timestamp")
    IN IF full /\ empty(c.oldest)
       THEN [c |-> c, err |-> "IndexError", thrown |-> <<>>]
       ELSE IF full /\ g.top.key \notin DOMAIN c.items
       THEN [c |-> [c EXCEPT !.oldest = g.items],
             err |-> "KeyError", thrown |-> <<g.top>>]
       ELSE LET c1 == IF full
                      THEN [c EXCEPT !.oldest = g.items,
                                     !.items = dict_del(c.items, g.top.key),
                                     !.numitems = c.numitems - 1]
                      ELSE c
                pq_data == [key |-> key, timestamp |-> now]
                p == put(c1.oldest, pq_data, "timestamp")
            IN [c |-> [c1 EXCEPT !.oldest = p.items,
                                 !.items = dict_set(c1.items, key,
                                              [index |-> p.index, value |-> value]),
                                 !.numitems = c1.numitems + 1],
                err |-> "none",
                thrown |-> IF full THEN <<g.top>> ELSE <<>>]

insert(c, key, value, now) ==
    LET full == c.numitems >= c.maxsize
        g == get(c.oldest, "timestamp")
    IN IF full /\ empty(c.oldest)
       THEN [c |-> c, err |-> "IndexError", thrown |-> <<>>]
       ELSE IF full /\ g.top.key \notin DOMAIN c.items
       THEN [c |-> [c EXCEPT !.oldest = g.items],
             err |-> "KeyError", thrown |-> <<g.top>>]
       ELSE LET c1 == IF full
                      THEN [c EXCEPT !.oldest = g.items,
                                     !.items = dict_del(c.items, g.top.key),
                                     !.numitems = c.numitems - 1]
                      ELSE c
                pq_data == [key |-> key, timestamp |-> now]
                p == put(c1.oldest, pq_data, "timestamp")
            IN [c |-> [c1 EXCEPT !.oldest = p.items,
                                 !.items = dict_set(c1.items, key,
                                              [index |-> p.index, value |-> value]),
                                 !.numitems = c1.numitems + 1],
                err |-> "none",
                thrown |-> IF full THEN <<g.top>> ELSE <<>>]

update(c, key, now) ==
    IF key \notin DOMAIN c.items
    THEN [c |-> c, err |-> "KeyError"]
    ELSE LET index == c.items[key].index IN
         IF index > Len(c.oldest)
         THEN [c |-> c, err |-> "IndexError"]
         ELSE LET stamped == [c.oldest EXCEPT ![index].timestamp = now]
              IN [c |-> [c EXCEPT !.oldest =
                             heapify_down(stamped, index, "timestamp").items],
                  err |-> "none"]

remove(c, key) ==
    IF key \notin DOMAIN c.items
    THEN [c |-> c, err |-> "KeyError"]
    ELSE LET index == c.items[key].index IN
         IF index > Len(c.oldest)
         THEN [c |-> c, err |-> "IndexError"]
         ELSE [c |-> [c EXCEPT !.oldest = delete(c.oldest, index, "timestamp").items,
                               !.items = dict_del(c.items, key),
                               !.numitems = c.numitems - 1],
               err |-> "none"]

(***************************************************************************)
(* lru_cache (cache.py).  args is the tuple of positional arguments,       *)
(* kwargs the dictionary of keyword arguments, whose names are numbered    *)
(* in their sort order.  value is what func returns if cached calls it.    *)
(***************************************************************************)
NKw == 2           \* the keyword names a call may use are 1..NKw

ArgTuples == {<<>>, <<1>>}

KwargDicts == UNION {[S -> {1}] : S \in SUBSET (1..NKw)}

\* sorted(kwargs.iteritems())
RECURSIVE sorted_items(_)
sorted_items(kwargs) ==
    IF DOMAIN kwargs = {}
    THEN <<>>
    ELSE LET n == CHOOSE x \in DOMAIN kwargs : \A y \in DOMAIN kwargs : x <= y
         IN <<<<n, kwargs[n]>>>> \o sorted_items(dict_del(kwargs, n))

argument_key(args, kwargs) == <<args, sorted_items(kwargs)>>

cached(c, nones, args, kwargs, value, now) ==
    LET key == argument_key(args, kwargs) IN
    IF key \in DOMAIN c.items
    THEN LET u == update(c, key, now)
         IN [c |-> u.c, invoked |-> 0,
             ret |-> IF u.err = "none" THEN c.items[key].value ELSE u.err]
    ELSE IF nones \/ value # None
    THEN LET r == insert(c, key, value, now)
         IN [c |-> r.c, invoked |-> 1,
             ret |-> IF r.err = "none" THEN value ELSE r.err]
    ELSE [c |-> c, invoked |-> 1, ret |-> value]

\* the LRUCache object as the variables hold it
cache == [items |-> items, oldest |-> oldest, maxsize |-> maxsize,
          numitems |-> numitems]

SetCacheInit(m) ==
    /\ items = LRUCache(m).items
    /\ oldest = LRUCache(m).oldest
    /\ numitems = LRUCache(m).numitems
    /\ maxsize = LRUCache(m).maxsize

SetCache(c) ==
    /\ items' = c.items
    /\ oldest' = c.oldest
    /\ numitems' = c.numitems
    /\ maxsize' = c.maxsize

\* time.time(): the wall clock, which does not run backwards here
Times == {t \in {clock, clock + 1} : t <= MaxTime}

CacheStart(m, nones) ==
    /\ SetCacheInit(m)
    /\ clock = 0
    /\ pure = TRUE
    /\ seen = {}
    /\ include_nones = nones
    /\ ret = None
    /\ invoked = 0

(***************************************************************************)
(* Bijection and Permutation (functions.py).  A permutation object is the  *)
(* record of its dictionary f, which holds the pairs key # value only, and *)
(* of its letters; a dictionary is a function on its keys.                 *)
(***************************************************************************)
NLetters == 3      \* generators are arrangements of 1..NLetters
MaxGens == 2       \* most generators given to generate_group
MaxRegroup == 12   \* largest group generate_group is called on again

\* Bijection.__init__ that copies the whole mapping
Bijection_all(d) == d

\* Bijection.__init__: self.f keeps the pairs with key != val
Bijection(d) == [k \in {x \in DOMAIN d : d[x] # x} |-> d[k]]

\* Permutation.__init__ on a dictionary: letters are its sorted keys
Permutation(d) == [f |-> Bijection(d), letters |-> DOMAIN d]

\* Permutation.__init__ on a list: the images of 1..len(f) in order
PermutationOfList(l) == [f |-> Bijection(l), letters |-> 1..Len(l)]

\* Bijection.__getitem__ / __call__
getitem(p, elt) == IF elt \in DOMAIN p.f THEN p.f[elt] ELSE elt

\* the class of an object: a Permutation has letters, a plain Bijection
\* has none
class_of(p) == IF "letters" \in DOMAIN p THEN "Permutation" ELSE "Bijection"

\* Permutation.__iter__: the images of the letters; Bijection.__iter__: the
\* keys of f
iter(p) ==
    IF class_of(p) = "Permutation"
    THEN {getitem(p, lt) : lt \in p.letters}
    ELSE DOMAIN p.f

\* Bijection.__len__
len(p) == Cardinality(DOMAIN p.f)

\* Bijection.of that leaves out the inner map
of_outer_only(p, bij) == [elt \in iter(bij) |-> getitem(p, elt)]

\* Bijection.of: the dictionary {elt: self(bij(elt)) for elt in bij}
of(p, bij) == [elt \in iter(bij) |-> getitem(p, getitem(bij, elt))]

\* Bijection.__eq__ with longer, shorter = self, obj whatever their sizes
eq_no_swap(p, q) ==
    /\ class_of(q) = class_of(p)
    /\ \A elt \in iter(p) :
           getitem(p, elt) # elt => getitem(p, elt) = getitem(q, elt)

\* Bijection.__eq__: p is self, q is obj
eq(p, q) ==
    LET longer == IF len(q) > len(p) THEN q ELSE p
        shorter == IF len(q) > len(p) THEN p ELSE q
    IN /\ class_of(q) = class_of(p)
       /\ \A elt \in iter(longer) :
              getitem(longer, elt) # elt =>
                  getitem(longer, elt) = getitem(shorter, elt)

\* Bijection.__hash__: the hash of the sorted pairs of f, taken as injective
hash(p) == p.f

\* p in group, for a Python set: same hash and equal
contains(grp, p) == \E g \in grp : hash(g) = hash(p) /\ eq(g, p)

\* new_elt = Permutation(elt.of(n))
new_elt(elt, n) == Permutation(of(elt, n))

\* one pass of the loop with no test "new_elt not in group"
add_pass_unchecked(elt, st, n) ==
    [group |-> st.group \cup {new_elt(elt, n)},
     computed |-> st.computed \cup {new_elt(elt, n)}]

RECURSIVE add_loop_unchecked(_, _, _)
add_loop_unchecked(elt, st, ns) ==
    IF ns = <<>>
    THEN st
    ELSE CHOOSE r \in {add_loop_unchecked(elt, s, rest) :
                          s \in {add_pass_unchecked(elt, st, Head(ns))},
                          rest \in {Tail(ns)}} : TRUE

\* add_elements with no test "new_elt not in group"
add_elements_unchecked(elt, ns, grp) ==
    add_loop_unchecked(elt, [group |-> grp, computed |-> {}], ns)

\* one pass of the loop "for n in new" of add_elements, for the element n
\* the set yields; st holds group and computed (made ranges over the one
\* object Permutation(elt.of(n)) makes)
add_pass(elt, st, n) ==
    LET after(made) ==
            IF ~contains(st.group, made)
            THEN [group |-> st.group \cup {made},
                  computed |-> st.computed \cup {made}]
            ELSE st
    IN CHOOSE r \in {after(made) : made \in {new_elt(elt, n)}} : TRUE

\* the loop "for n in new" of add_elements, where ns lists new in the order
\* the set yields its elements (s ranges over the one state a pass leaves,
\* rest over the one list of the elements still to come)
RECURSIVE add_loop(_, _, _)
add_loop(elt, st, ns) ==
    IF ns = <<>>
    THEN st
    ELSE CHOOSE r \in {add_loop(elt, s, rest) :
                          s \in {add_pass(elt, st, Head(ns))},
                          rest \in {Tail(ns)}} : TRUE

\* add_elements: computed = set(), the loop over new in the order ns,
\* return computed (group is changed in place and given here as well)
add_elements(elt, ns, grp) ==
    add_loop(elt, [group |-> grp, computed |-> {}], ns)

\* some list of the elements of S (x is one element, T the others)
RECURSIVE listing(_)
listing(S) ==
    IF S = {}
    THEN <<>>
    ELSE CHOOSE l \in UNION {{<<x>> \o listing(T) : T \in {S \ {x}}} :
                                x \in {CHOOSE y \in S : TRUE}} : TRUE

\* The ways to pick, for every hash in hs, the n that is the first to make
\* a product of that hash; made holds the pairs [n, elt] of an n of new and
\* the object new_elt it makes, and one n stands for all that make the
\* same object.
RECURSIVE first_met(_, _)
first_met(made, hs) ==
    IF hs = {}
    THEN {{}}
    ELSE LET h == CHOOSE x \in hs : TRUE
             objs == {m.elt : m \in {x \in made : hash(x.elt) = h}}
             from == {(CHOOSE m \in made : m.elt = r).n : r \in objs}
         IN {F \cup {n} : F \in first_met(made, hs \ {h}), n \in from}

\* the hashes that several objects of made have
clashes(made) ==
    {hash(m.elt) : m \in {x \in made : \E y \in made :
                            hash(y.elt) = hash(x.elt) /\ y.elt # x.elt}}

\* The orders in which "for n in new" may yield the set nw.  The order is
\* the interpreter's (it follows the hashes and the history of the set's
\* table), so any order can occur.  What the loop leaves depends on the
\* order only through which of several products with the same hash, which
\* are equal (==), is met first: that one is added and the others are then
\* found in group.  One order is listed for every such choice.
iteration_orders(elt, nw) ==
    UNION {{listing(F) \o listing(nw \ F) : F \in first_met(made, clashes(made))} :
              made \in {{[n |-> n, elt |-> new_elt(elt, n)] : n \in nw}}}

\* The ways to keep one element of every hash in hs out of S.
RECURSIVE kept(_, _)
kept(S, hs) ==
    IF hs = {}
    THEN {{}}
    ELSE LET h == CHOOSE x \in hs : TRUE
         IN {K \cup {g} : K \in kept(S, hs \ {h}), g \in {x \in S : hash(x) = h}}

\* set(gens): of elements that are equal (==, same hash) a Python set
\* keeps the one added first, which may be any of them
set_of(S) == kept(S, {hash(g) : g \in S})

\* generate_group has not been called
GroupIdle ==
    /\ gens = {}
    /\ new = {}
    /\ group = {}
    /\ computed = {}
    /\ todo = {}
    /\ gpc = "idle"
    /\ before = {}
    /\ rounds = 0
    /\ call = 0
    /\ first = {}

\* no function of functions.py or serialize.py has been given an object
CodecIdle ==
    /\ orig = "idle"
    /\ cur = "idle"
    /\ trail = <<>>
    /\ scipy = FALSE

(***************************************************************************)
(* The integer priority queue driven as test_pq.py drives it: puts and     *)
(* deletes at any occupied slot, then items(pq) pops until empty.          *)
(***************************************************************************)
PQStart ==
    /\ pq = <<>>
    /\ live = [v \in 0..(MaxVal - 1) |-> 0]
    /\ draining = FALSE
    /\ popped = <<>>
    /\ deleted = FALSE
    /\ pqlast = "none"

InitPQ == PQStart /\ CacheStart(1, TRUE) /\ GroupIdle /\ CodecIdle

Put(v) ==
    /\ ~draining
    /\ Len(pq) < MaxHeap
    /\ pq' = put(pq, v, "id").items
    /\ live' = [live EXCEPT ![v] = @ + 1]
    /\ pqlast' = "put"
    /\ UNCHANGED <<draining, popped, deleted>>
    /\ UNCHANGED <<cachevars, groupvars, codecvars>>

Delete(i) ==
    /\ ~draining
    /\ i \in 1..Len(pq)
    /\ pq' = delete(pq, i, "id").items
    /\ live' = [live EXCEPT ![delete(pq, i, "id").deleted] = @ - 1]
    /\ deleted' = TRUE
    /\ pqlast' = delete_branch(pq, i, "id")
    /\ UNCHANGED <<draining, popped>>
    /\ UNCHANGED <<cachevars, groupvars, codecvars>>

\* one iteration of items(pq): while not pq.empty(): yield pq.get()
ItemsNext ==
    /\ ~empty(pq)
    /\ draining' = TRUE
    /\ pq' = get(pq, "id").items
    /\ popped' = Append(popped, get(pq, "id").top)
    /\ pqlast' = "get"
    /\ UNCHANGED <<live, deleted>>
    /\ UNCHANGED <<cachevars, groupvars, codecvars>>

NextPQ ==
    \/ \E v \in 0..(MaxVal - 1) : Put(v)
    \/ \E i \in 1..MaxHeap : Delete(i)
    \/ ItemsNext

SpecPQ == InitPQ /\ [][NextPQ]_vars

HeapOrdered(its, ev) ==
    \A i \in 2..Len(its) : eval(ev, its[i \div 2]) <= eval(ev, its[i])

\* C1: after any interleaving of put and delete(i) at an occupied slot,
\* starting from the empty queue, every slot i >= 2 has
\* key(items[i div 2]) <= key(items[i]).
HeapProperty == HeapOrdered(pq, "id")

\* a delete inside the heap has just moved the last item towards the root
HeapPropertyWitness == pqlast = "up" /\ Len(pq) >= 5 /\ HeapOrdered(pq, "id")

\* the integers held are distinct: none was inserted again while held
Distinct == \A v \in 0..(MaxVal - 1) : live[v] <= 1

\* C2: once items(pq) has emptied a queue of distinct integers built by
\* puts and deletes, it has yielded exactly the integers inserted and not
\* deleted, each once, in strictly increasing order.
DrainSorted ==
    (draining /\ empty(pq) /\ Distinct) =>
        /\ \A i \in 1..(Len(popped) - 1) : popped[i] < popped[i + 1]
        /\ Range(popped) = {v \in 0..(MaxVal - 1) : live[v] = 1}
        /\ Len(popped) = Cardinality({v \in 0..(MaxVal - 1) : live[v] = 1})

\* a queue that saw a delete and was then emptied of four distinct integers
DrainSortedWitness ==
    draining /\ empty(pq) /\ deleted /\ Distinct /\ Len(popped) >= 4

(***************************************************************************)
(* The cache driven directly: insert, update and remove with any key.      *)
(***************************************************************************)
InitCache ==
    PQStart /\ GroupIdle /\ CodecIdle /\ \E m \in 1..MaxCap : CacheStart(m, TRUE)

Insert(key, value, now) ==
    LET r == insert(cache, key, value, now) IN
    /\ SetCache(r.c)
    /\ clock' = IF r.err = "none" THEN now ELSE clock
    /\ pure' = (pure /\ key \notin seen)
    /\ seen' = IF pure' THEN seen \cup {key} ELSE {}
    /\ UNCHANGED <<include_nones, ret, invoked>>
    /\ UNCHANGED <<pqvars, groupvars, codecvars>>

Update(key, now) ==
    LET r == update(cache, key, now) IN
    /\ SetCache(r.c)
    /\ clock' = IF key \in DOMAIN items THEN now ELSE clock
    /\ pure' = FALSE
    /\ seen' = {}
    /\ UNCHANGED <<include_nones, ret, invoked>>
    /\ UNCHANGED <<pqvars, groupvars, codecvars>>

Remove(key) ==
    LET r == remove(cache, key) IN
    /\ SetCache(r.c)
    /\ pure' = FALSE
    /\ seen' = {}
    /\ UNCHANGED <<clock, include_nones, ret, invoked>>
    /\ UNCHANGED <<pqvars, groupvars, codecvars>>

NextCache ==
    \/ \E key \in 1..NKeys, now \in Times : Insert(key, "a", now)
    \/ \E key \in 1..NKeys, now \in Times : Update(key, now)
    \/ \E key \in 1..NKeys : Remove(key)

SpecCache == InitCache /\ [][NextCache]_vars

\* the slots of heap its whose record is the record of key k
SlotsOf(its, k) == {i \in 1..Len(its) : its[i].key = k}

\* the timestamps heap its holds for key k
StampsOf(its, k) == {its[i].timestamp : i \in SlotsOf(its, k)}

\* C3: for every key k of the map, the heap record at slot
\* items[k]['index'] is the record whose 'key' is k.
SlotInvariant ==
    \A k \in DOMAIN items :
        /\ items[k].index \in 1..Len(oldest)
        /\ oldest[items[k].index].key = k

\* C4: the keys of the map and the records of the heap never number more
\* than the capacity.
SizeBound ==
    /\ Cardinality(DOMAIN items) <= maxsize
    /\ Len(oldest) <= maxsize

\* a full cache of two or more entries has evicted one to insert another
SizeBoundWitness ==
    /\ pure /\ Cardinality(seen) > maxsize
    /\ maxsize >= 2
    /\ Len(oldest) = maxsize
    /\ Cardinality(DOMAIN items) = maxsize

\* an insert of a new key into a full cache, so far given distinct keys only,
\* loses exactly one key, whose record held a least timestamp of the heap,
\* and keeps every other record as it was
EvictsOldest ==
    \A key \in 1..NKeys, now \in Times :
        (pure /\ key \notin seen /\ numitems >= maxsize /\ Insert(key, "a", now)) =>
            \E k \in DOMAIN items :
                /\ DOMAIN items' = (DOMAIN items \ {k}) \cup {key}
                /\ \A i \in 1..Len(oldest), t \in StampsOf(oldest, k) :
                       t <= oldest[i].timestamp
                /\ SlotsOf(oldest', k) = {}
                /\ StampsOf(oldest', key) = {now}
                /\ \A j \in DOMAIN items \ {k} :
                       /\ StampsOf(oldest', j) = StampsOf(oldest, j)
                       /\ Cardinality(SlotsOf(oldest', j)) = 1

\* C5: after more than C inserts of distinct keys into a cache of capacity
\* C the cache holds exactly C entries, and each eviction removed an entry
\* whose timestamp was least among the entries held just before it.
CacheBound ==
    /\ [](pure /\ Cardinality(seen) > maxsize =>
             /\ Cardinality(DOMAIN items) = maxsize
             /\ Len(oldest) = maxsize
             /\ numitems = maxsize)
    /\ [][EvictsOldest]_vars

\* two evictions have happened, the later one among unequal timestamps
CacheBoundWitness ==
    /\ pure /\ Cardinality(seen) >= maxsize + 2
    /\ \E i, j \in 1..Len(oldest) : oldest[i].timestamp < oldest[j].timestamp

\* C6: update(key) on a present key sets the timestamp of that key's heap
\* record to the current time and leaves every other key's timestamp alone.
UpdateStampsOwn ==
    [][\A key \in 1..NKeys, now \in Times :
          (/\ key \in DOMAIN items
           /\ Cardinality(SlotsOf(oldest, key)) = 1
           /\ Update(key, now)) =>
              /\ StampsOf(oldest', key) = {now}
              /\ \A k \in (1..NKeys) \ {key} :
                     StampsOf(oldest', k) = StampsOf(oldest, k)]_vars

\* C7: remove(key) on a present key removes the map entry of key and the
\* heap record of key, and leaves every other key in the map and the heap.
RemoveTakesOwn ==
    [][\A key \in 1..NKeys :
          (/\ key \in DOMAIN items
           /\ Cardinality(SlotsOf(oldest, key)) = 1
           /\ Remove(key)) =>
              /\ key \notin DOMAIN items'
              /\ SlotsOf(oldest', key) = {}
              /\ \A k \in (1..NKeys) \ {key} :
                     /\ (k \in DOMAIN items') = (k \in DOMAIN items)
                     /\ Cardinality(SlotsOf(oldest', k)) =
                            Cardinality(SlotsOf(oldest, k))]_vars

\* C27: whatever inserts, updates and removes were made, a key given twice
\* included, numitems is the number of keys of the map and the number of
\* records of the heap, and the heap holds one record for every key of the
\* map and none for any other key.
CountsAgree ==
    /\ numitems = Cardinality(DOMAIN items)
    /\ numitems = Len(oldest)
    /\ \A k \in DOMAIN items : Cardinality(SlotsOf(oldest, k)) = 1
    /\ \A i \in 1..Len(oldest) : oldest[i].key \in DOMAIN items

(***************************************************************************)
(* The wrapper lru_cache returns, called with any arguments.  The cache    *)
(* it closes over has maxsize cachesize; the model takes it in 1..MaxCap.  *)
(***************************************************************************)
InitWrapper ==
    PQStart /\ GroupIdle /\ CodecIdle /\ \E m \in 1..MaxCap, nones \in BOOLEAN : CacheStart(m, nones)

Cached(args, kwargs, value, now) ==
    LET r == cached(cache, include_nones, args, kwargs, value, now)
        key == argument_key(args, kwargs)
    IN /\ SetCache(r.c)
       /\ ret' = r.ret
       /\ invoked' = r.invoked
       /\ clock' = IF key \in DOMAIN items \/ include_nones \/ value # None
                   THEN now ELSE clock
       /\ UNCHANGED <<pure, seen, include_nones>>
       /\ UNCHANGED <<pqvars, groupvars, codecvars>>

NextWrapper ==
    \E args \in ArgTuples, kwargs \in KwargDicts, value \in Values, now \in Times :
        Cached(args, kwargs, value, now)

SpecWrapper == InitWrapper /\ [][NextWrapper]_vars

\* C8: a call of the wrapper whose key is cached returns the stored value
\* without calling func and touches that entry (its record gets the current
\* time); a call whose key is not cached calls func once, returns its value,
\* and stores it unless include_nones is false and the value is None.
CachedContract ==
    [][\A args \in ArgTuples, kwargs \in KwargDicts, value \in Values, now \in Times :
          Cached(args, kwargs, value, now) =>
             LET key == argument_key(args, kwargs) IN
             IF key \in DOMAIN items
             THEN /\ ret' = items[key].value
                  /\ invoked' = 0
                  /\ StampsOf(oldest', key) = {now}
             ELSE /\ ret' = value
                  /\ invoked' = 1
                  /\ IF include_nones \/ value # None
                     THEN key \in DOMAIN items' /\ items'[key].value = value
                     ELSE key \notin DOMAIN items']_vars

(***************************************************************************)
(* generate_group (functions.py), one step for each generator the loop     *)
(* "for elt in gens" takes and one for the end of a round.                 *)
(***************************************************************************)
\* the arrangements of 1..NLetters, as lists
Arrangements ==
    {l \in [1..NLetters -> 1..NLetters] : \A i, j \in 1..NLetters : l[i] = l[j] => i = j}

RECURSIVE SetsUpTo(_, _)
SetsUpTo(S, k) ==
    IF k = 0 THEN {{}}
    ELSE LET smaller == SetsUpTo(S, k - 1)
         IN smaller \cup {s \cup {x} : s \in smaller, x \in S}

GeneratorSets ==
    SetsUpTo({PermutationOfList(l) : l \in Arrangements}, MaxGens) \ {{}}

\* new, group = set(gens), set(gens); the first test of the while loop
InitGroup ==
    /\ PQStart /\ CacheStart(1, TRUE) /\ CodecIdle
    /\ gens \in GeneratorSets
    /\ new \in set_of(gens)
    /\ group = new
    /\ computed = {}
    /\ todo = gens
    /\ gpc = "round"
    /\ before = group
    /\ rounds = 0
    /\ call = 1
    /\ first = {}

\* computed |= add_elements(elt, new, group), for the elt the loop
\* "for elt in gens" takes next, which may be any generator not yet taken,
\* with new yielded in any order
AddElements(elt) ==
    /\ gpc = "round"
    /\ elt \in todo
    /\ \E ns \in iteration_orders(elt, new) :
           \E r \in {add_elements(elt, ns, group)} :
               /\ computed' = computed \cup r.computed
               /\ group' = r.group
    /\ todo' = todo \ {elt}
    /\ UNCHANGED <<gens, new, gpc, before, rounds, call, first>>
    /\ UNCHANGED <<pqvars, cachevars, codecvars>>

\* the loop "while len(new) > 0" run once only
RoundEnd_once ==
    /\ gpc = "round"
    /\ todo = {}
    /\ new' = computed
    /\ computed' = {}
    /\ gpc' = "done"
    /\ todo' = {}
    /\ before' = group
    /\ rounds' = rounds + 1
    /\ UNCHANGED <<gens, group, call, first>>
    /\ UNCHANGED <<pqvars, cachevars, codecvars>>

\* new = computed; then the test of the while loop and computed = set()
RoundEnd ==
    /\ gpc = "round"
    /\ todo = {}
    /\ new' = computed
    /\ computed' = {}
    /\ gpc' = IF Cardinality(computed) > 0 THEN "round" ELSE "done"
    /\ todo' = IF Cardinality(computed) > 0 THEN gens ELSE {}
    /\ before' = group
    /\ rounds' = rounds + 1
    /\ UNCHANGED <<gens, group, call, first>>
    /\ UNCHANGED <<pqvars, cachevars, codecvars>>

NextGroup ==
    \/ \E elt \in gens : AddElements(elt)
    \/ RoundEnd

SpecGroup == InitGroup /\ [][NextGroup]_vars

\* the loop runs on until it returns
FairSpecGroup == SpecGroup /\ WF_vars(NextGroup)

\* the map on 1..NLetters a permutation object stands for
Fun(p) == [x \in 1..NLetters |-> getitem(p, x)]

\* the composition a after b of two maps on 1..NLetters
Comp(a, b) == [x \in 1..NLetters |-> a[b[x]]]

\* the least set that contains W and is closed under composition
RECURSIVE SmallestClosed(_)
SmallestClosed(W) ==
    LET W2 == W \cup {Comp(a, b) : a, b \in W}
    IN IF W2 = W THEN W ELSE SmallestClosed(W2)

RECURSIVE Factorial(_)
Factorial(n) == IF n <= 1 THEN 1 ELSE n * Factorial(n - 1)

\* C9: for a non-empty set S of well-defined permutations over the same
\* letters, generate_group(S) returns the smallest set that contains S and
\* is closed under composition: it contains S, holds a o b for all its a and
\* b, and every element of it is a finite product of elements of S.
GroupGenerated ==
    gpc = "done" =>
        LET G == {Fun(g) : g \in group}
            S == {Fun(g) : g \in gens}
        IN /\ S \subseteq G
           /\ \A a, b \in G : Comp(a, b) \in G
           /\ G \subseteq SmallestClosed(S)
           /\ Cardinality(group) = Cardinality(G)
           /\ \A g \in group : DOMAIN g.f \subseteq 1..NLetters

\* two generators have generated every permutation of the letters
GroupGeneratedWitness ==
    /\ gpc = "done"
    /\ Cardinality(gens) = 2
    /\ rounds >= 3
    /\ Cardinality(group) = Factorial(NLetters)

\* C10: generate_group terminates: group only grows, it never holds more
\* elements than there are permutations of the letters, and the loop ends
\* with the first round that adds no element.
GroupTerminates ==
    /\ <>(gpc = "done")
    /\ [](Cardinality(group) <= Factorial(NLetters))
    /\ [][group \subseteq group']_vars
    /\ [][(gpc = "round" /\ todo = {} /\ rounds' = rounds + 1) =>
             ((gpc' = "done") = (group = before))]_vars

\* the loop has ended after rounds that added elements
GroupTerminatesWitness ==
    /\ gpc = "done"
    /\ rounds >= 2
    /\ group = before
    /\ Cardinality(group) > Cardinality(gens)

(***************************************************************************)
(* generate_group called again on what it returned.                        *)
(***************************************************************************)
\* generate_group(group) once the first call has returned group, for
\* groups of at most MaxRegroup elements (the loop "for elt in gens" of the
\* second call takes the elements of the group in any order)
Regenerate ==
    /\ gpc = "done"
    /\ call = 1
    /\ Cardinality(group) <= MaxRegroup
    /\ first' = group
    /\ gens' = group
    /\ new' = group
    /\ group' = group
    /\ computed' = {}
    /\ todo' = group
    /\ gpc' = "round"
    /\ before' = group
    /\ rounds' = 0
    /\ call' = 2
    /\ UNCHANGED <<pqvars, cachevars, codecvars>>

NextRegroup ==
    \/ NextGroup
    \/ Regenerate

SpecRegroup == InitGroup /\ [][NextRegroup]_vars

\* two Python sets of permutation objects are equal (==): each holds an
\* element equal to every element of the other
set_eq(A, B) ==
    /\ \A a \in A : contains(B, a)
    /\ \A b \in B : contains(A, b)

\* C11: generate_group(generate_group(S)) equals generate_group(S): the
\* second call, given what the first returned, returns an equal set, after
\* one round that adds nothing.
ClosureIdempotent ==
    (call = 2 /\ gpc = "done") =>
        /\ set_eq(group, first)
        /\ Cardinality(group) = Cardinality(first)
        /\ rounds = 1

\* the second call has returned all the permutations of the letters, which
\* the first call generated from at most MaxGens of them
ClosureIdempotentWitness ==
    /\ call = 2
    /\ gpc = "done"
    /\ Cardinality(first) = Factorial(NLetters)
    /\ group = first

(***************************************************************************)
(* generate_group given generators over different letters.                 *)
(***************************************************************************)
\* some two generators differ in their letters
MixedDomains(S) == \E p, q \in S : p.letters # q.letters

\* the arrangements of 1..n, as lists
ArrangementsOf(n) ==
    {l \in [1..n -> 1..n] : \A i, j \in 1..n : l[i] = l[j] => i = j}

\* sets of generators that mix arrangements of 1..NLetters-1 and 1..NLetters
MixedGeneratorSets ==
    {S \in SetsUpTo({PermutationOfList(l) :
                        l \in ArrangementsOf(NLetters - 1) \cup ArrangementsOf(NLetters)},
                    MaxGens) : MixedDomains(S)}

\* generate_group is about to be called with gens
InitMixed ==
    /\ PQStart /\ CacheStart(1, TRUE) /\ CodecIdle
    /\ gens \in MixedGeneratorSets
    /\ new = {}
    /\ group = {}
    /\ computed = {}
    /\ todo = {}
    /\ gpc = "call"
    /\ before = {}
    /\ rounds = 0
    /\ call = 1
    /\ first = {}

\* the call: new, group = set(gens), set(gens) and the first test of the
\* while loop; nothing in generate_group looks at the letters or raises
Call ==
    /\ gpc = "call"
    /\ new' \in set_of(gens)
    /\ group' = new'
    /\ todo' = gens
    /\ gpc' = "round"
    /\ before' = new'
    /\ UNCHANGED <<gens, computed, rounds, call, first>>
    /\ UNCHANGED <<pqvars, cachevars, codecvars>>

NextMixed ==
    \/ Call
    \/ NextGroup

SpecMixed == InitMixed /\ [][NextMixed]_vars

\* C12: given generators over different letters, generate_group raises an
\* InvalidGeneratorError (gpc = "raised") before it composes anything and
\* returns no group: it never takes a generator of the loop, never ends a
\* round and never returns.
RejectsMixedDomains ==
    MixedDomains(gens) =>
        \/ gpc \in {"call", "raised"}
        \/ gpc = "round" /\ todo = gens /\ rounds = 0 /\ computed = {}


(***************************************************************************)
(* The codecs of serialize.py.  A value handed to or returned by a         *)
(* function is a record of its kind ("perm", "int", "graph", "set", "seq", *)
(* "bool", or "raised" for an exception) and the value v itself, which is  *)
(* a record in every kind.                                                 *)
(***************************************************************************)
MaxPerm == 4       \* perm_to_int is given arrangements of 1..n, n <= MaxPerm

Val(kind, v) == [kind |-> kind, v |-> v]

IntVal(i) == Val("int", [int |-> i])

Raised(exc) == Val("raised", [exc |-> exc])

Applied(fn, n) == [fn |-> fn, n |-> n]

\* sorted(S) for a set of integers
RECURSIVE sorted(_)
sorted(S) ==
    IF S = {} THEN <<>>
    ELSE LET m == CHOOSE x \in S : \A y \in S : x <= y
         IN <<m>> \o sorted(S \ {m})

\* list(perm): what Permutation.__iter__ yields, in the order of the letters
list(p) ==
    LET ls == sorted(p.letters)
    IN [i \in 1..Len(ls) |-> getitem(p, ls[i])]

\* perm.remove(x): the list without its first x
remove_first(l, x) ==
    LET i == CHOOSE i \in 1..Len(l) : l[i] = x /\ \A j \in 1..(i - 1) : l[j] # x
    IN SubSeq(l, 1, i - 1) \o SubSeq(l, i + 1, Len(l))

\* perm_to_int that leaves position as it is after perm.remove(k + 1)
shift_down_none(position, perm, pos) == position

\* for p in perm[pos:]: position[p] -= 1 (perm holds no value twice)
shift_down(position, perm, pos) ==
    [p \in DOMAIN position |->
        IF \E j \in (pos + 1)..Len(perm) : perm[j] = p
        THEN position[p] - 1
        ELSE position[p]]

\* the loop of perm_to_int, for k, k - 1, ..., 1
RECURSIVE perm_to_int_loop(_, _, _, _)
perm_to_int_loop(perm, position, i, k) ==
    IF k < 1 THEN i
    ELSE LET pos == position[k + 1]
             rest == remove_first(perm, k + 1)
         IN perm_to_int_loop(rest, shift_down(position, rest, pos),
                             i + Factorial(k) * (k - pos), k - 1)

\* a code that is the rank of the list among the arrangements of its
\* letters in dictionary order
perm_to_int_lex(p) ==
    LET perm == list(p)
        smaller(j) == Cardinality({h \in (j + 1)..Len(perm) : perm[h] < perm[j]})
        rank[j \in 0..Len(perm)] ==
            IF j = 0 THEN 0
            ELSE rank[j - 1] + smaller(j) * Factorial(Len(perm) - j)
    IN rank[Len(perm)]

\* perm_to_int, for a permutation object whose list is an arrangement of
\* 1..len(perm); positions count from 0
perm_to_int(p) ==
    LET perm == list(p)
        position == [v \in Range(perm) |->
                        (CHOOSE j \in 1..Len(perm) :
                            perm[j] = v /\ \A h \in (j + 1)..Len(perm) : perm[h] # v) - 1]
    IN perm_to_int_loop(perm, position, 0, Len(perm) - 1)

\* while factorial(n) <= i: n += 1
RECURSIVE least_length(_, _)
least_length(i, n) == IF Factorial(n) <= i THEN least_length(i, n + 1) ELSE n

\* int_to_perm that takes the digit i / kf itself as the slot
slot_digit(k, i, kf) == i \div kf

\* pos = k - i / kf
slot(k, i, kf) == k - (i \div kf)

\* the loop "while not placed" of int_to_perm; perm[j] past the end of the
\* list raises IndexError
RECURSIVE place(_, _, _, _, _)
place(perm, j, num_zeros, pos, k) ==
    IF j >= Len(perm) THEN [err |-> "IndexError", perm |-> perm]
    ELSE IF perm[j + 1] # 0 THEN place(perm, j + 1, num_zeros, pos, k)
    ELSE IF num_zeros < pos THEN place(perm, j + 1, num_zeros + 1, pos, k)
    ELSE [err |-> "none", perm |-> [perm EXCEPT ![j + 1] = k + 1]]

\* the loop of int_to_perm, for k, k - 1, ..., 0
RECURSIVE int_to_perm_loop(_, _, _)
int_to_perm_loop(perm, i, k) ==
    IF k < 0 THEN [err |-> "none", perm |-> perm]
    ELSE LET kf == Factorial(k)
             placed == place(perm, 0, 0, slot(k, i, kf), k)
         IN IF placed.err # "none" THEN placed
            ELSE int_to_perm_loop(placed.perm, i % kf, k - 1)

\* int_to_perm(i, n): the permutation object, or the exception raised
int_to_perm(i, n) ==
    LET m == least_length(i, n)
        r == int_to_perm_loop([j \in 1..m |-> 0], i, m - 1)
    IN IF r.err # "none" THEN Raised(r.err)
       ELSE Val("perm", PermutationOfList(r.perm))

(***************************************************************************)
(* perm_to_int and int_to_perm applied to an arrangement of 1..n or to an  *)
(* integer below MaxPerm!, one after the other.                            *)
(***************************************************************************)
PermInputs ==
    {Val("perm", PermutationOfList(l)) :
        l \in UNION {ArrangementsOf(n) : n \in 0..MaxPerm}}
    \cup {IntVal(i) : i \in 0..(Factorial(MaxPerm) - 1)}

InitPerm ==
    /\ PQStart /\ CacheStart(1, TRUE) /\ GroupIdle
    /\ orig \in PermInputs
    /\ cur = orig
    /\ trail = <<>>
    /\ scipy = FALSE

PermToInt ==
    /\ Len(trail) < 2
    /\ cur.kind = "perm"
    /\ cur' = IntVal(perm_to_int(cur.v))
    /\ trail' = Append(trail, Applied("perm_to_int", 0))
    /\ UNCHANGED <<orig, scipy, pqvars, cachevars, groupvars>>

IntToPerm(n) ==
    /\ Len(trail) < 2
    /\ cur.kind = "int"
    /\ cur' = int_to_perm(cur.v.int, n)
    /\ trail' = Append(trail, Applied("int_to_perm", n))
    /\ UNCHANGED <<orig, scipy, pqvars, cachevars, groupvars>>

NextPerm ==
    \/ PermToInt
    \/ \E n \in 0..MaxPerm : IntToPerm(n)

SpecPerm == InitPerm /\ [][NextPerm]_vars

\* C13: perm_to_int and int_to_perm(., n) are inverse bijections between
\* the arrangements of 1..n and 0..n!-1: the code of an arrangement of 1..n
\* is in 0..n!-1 and decodes with n to the same arrangement, and an integer
\* i < n! decodes with n to an arrangement of 1..n whose code is i.
PermRoundTrip ==
    /\ (orig.kind = "perm" /\ Len(trail) >= 1) =>
           trail[1].fn = "perm_to_int"
    /\ (orig.kind = "perm" /\ Len(trail) = 1) =>
           /\ cur.kind = "int"
           /\ cur.v.int \in 0..(Factorial(len(orig.v) + Cardinality(orig.v.letters \ DOMAIN orig.v.f)) - 1)
    /\ (orig.kind = "perm" /\ Len(trail) = 2
            /\ trail[2] = Applied("int_to_perm", Len(list(orig.v)))) =>
           /\ cur.kind = "perm"
           /\ list(cur.v) = list(orig.v)
    /\ (orig.kind = "int" /\ Len(trail) >= 1 /\ orig.v.int < Factorial(trail[1].n)) =>
           /\ trail[1].fn = "int_to_perm"
           /\ Len(trail) = 1 =>
                  /\ cur.kind = "perm"
                  /\ list(cur.v) \in ArrangementsOf(trail[1].n)
           /\ Len(trail) = 2 =>
                  /\ cur.kind = "int"
                  /\ cur.v.int = orig.v.int

\* an arrangement of 1..MaxPerm that is out of order has been encoded and
\* decoded back
PermRoundTripWitness ==
    /\ orig.kind = "perm"
    /\ Len(list(orig.v)) = MaxPerm
    /\ list(orig.v)[1] = MaxPerm
    /\ Len(trail) = 2
    /\ trail[2].n = MaxPerm
    /\ cur = orig


\* perm_to_int has been applied to [2,1,3], the first thing done
Encoded213 ==
    /\ orig.kind = "perm"
    /\ list(orig.v) = <<2, 1, 3>>
    /\ Len(trail) = 1

\* int_to_perm(i, 3) has been applied to the integer i, the first thing done
Decoded3(i) ==
    /\ orig.kind = "int"
    /\ orig.v.int = i
    /\ trail = <<Applied("int_to_perm", 3)>>

\* C14 as stated: perm_to_int of [2,1,3] returns 2, its rank among the
\* arrangements of 3 elements in lexicographic order, and int_to_perm(2, 3)
\* returns [2,1,3].
LexRankOf213 ==
    /\ Encoded213 => cur.v.int = 2
    /\ Decoded3(2) => (cur.kind = "perm" /\ list(cur.v) = <<2, 1, 3>>)

\* C14 as amended: perm_to_int of [2,1,3] returns 1, its rank in the
\* factorial number system of the code (the code of [2,1] too), and
\* int_to_perm(1, 3) returns [2,1,3].
FactorialRankOf213 ==
    /\ Encoded213 => cur.v.int = 1
    /\ Decoded3(1) => (cur.kind = "perm" /\ list(cur.v) = <<2, 1, 3>>)
    /\ (orig.kind = "perm" /\ list(orig.v) = <<2, 1>> /\ Len(trail) = 1) =>
           cur.v.int = 1

\* [2,1,3] has been encoded
FactorialRankOf213Witness ==
    /\ Encoded213
    /\ cur = IntVal(1)


(***************************************************************************)
(* Graphs (graph.py) and their codec (serialize.py).  A graph is the       *)
(* record of the keys of its dictionaries nodes and edges; an edge is the  *)
(* pair (n1, n2) with n1 < n2 that Graph.edge gives.                       *)
(***************************************************************************)
MaxNodes == 4      \* graph_to_int is given graphs on 1..n, n <= MaxNodes

\* complete_graph_edges(n): (1,2), (1,3), (2,3), (1,4), ... in this order
RECURSIVE complete_graph_edges(_)
complete_graph_edges(n) ==
    IF n < 2 THEN <<>>
    ELSE complete_graph_edges(n - 1) \o [i \in 1..(n - 1) |-> <<i, n>>]

\* comb(n, k) when scipy.misc.comb was imported: the binomial coefficient,
\* 0 when k > n
scipy_comb(n, k) ==
    IF k > n THEN [err |-> "none", c |-> 0]
    ELSE [err |-> "none",
          c |-> Factorial(n) \div (Factorial(k) * Factorial(n - k))]

\* substitute_comb(n, k): math.factorial raises ValueError below 0
substitute_comb(n, k) ==
    IF n < 0 \/ k < 0 \/ n - k < 0 THEN [err |-> "ValueError", c |-> 0]
    ELSE [err |-> "none",
          c |-> Factorial(n) \div (Factorial(k) * Factorial(n - k))]

\* choose(n, k) == int(round(comb(n, k))), comb being what the import left
choose(n, k) == IF scipy THEN scipy_comb(n, k) ELSE substitute_comb(n, k)

\* the loop of graph_to_int over the edges from the j-th on; k is 1 << (j-1)
RECURSIVE graph_to_int_loop(_, _, _, _, _)
graph_to_int_loop(graph, edges, j, k, encoded) ==
    IF j > Len(edges) THEN encoded
    ELSE graph_to_int_loop(graph, edges, j + 1, 2 * k,
                           IF edges[j] \in graph.edges THEN encoded + k ELSE encoded)

\* graph_to_int
graph_to_int(graph) ==
    graph_to_int_loop(graph, complete_graph_edges(Cardinality(graph.nodes)), 1, 1, 0)

\* while 1 << g.choose(n, 2) <= i: n += 1; gives n or the exception of choose
RECURSIVE least_nodes(_, _)
least_nodes(i, n) ==
    LET c == choose(n, 2)
    IN IF c.err # "none" THEN [err |-> c.err, n |-> n]
       ELSE IF 2 ^ c.c <= i THEN least_nodes(i, n + 1)
       ELSE [err |-> "none", n |-> n]

\* i & k for k a power of two: whether that bit of i is set (Python takes a
\* negative i in two's complement)
bit_and(i, k) == (i \div k) % 2 = 1

\* int_to_graph(i, n): add_nodes, then add_edge for every set bit
int_to_graph(i, n) ==
    LET m == least_nodes(i, n)
        edges == complete_graph_edges(m.n)
        picked == {edges[j] : j \in {h \in 1..Len(edges) : bit_and(i, 2 ^ (h - 1))}}
    IN IF m.err # "none" THEN Raised(m.err)
       ELSE Val("graph", [nodes |-> (1..m.n) \cup UNION {{e[1], e[2]} : e \in picked},
                          edges |-> picked])

\* the graphs on the nodes 1..n
GraphsOn(n) ==
    {[nodes |-> 1..n, edges |-> E] : E \in SUBSET Range(complete_graph_edges(n))}

InitGraph ==
    /\ PQStart /\ CacheStart(1, TRUE) /\ GroupIdle
    /\ orig \in {Val("graph", g) : g \in UNION {GraphsOn(n) : n \in 1..MaxNodes}}
    /\ cur = orig
    /\ trail = <<>>
    /\ scipy \in BOOLEAN

GraphToInt ==
    /\ Len(trail) < 2
    /\ cur.kind = "graph"
    /\ cur' = IntVal(graph_to_int(cur.v))
    /\ trail' = Append(trail, Applied("graph_to_int", 0))
    /\ UNCHANGED <<orig, scipy, pqvars, cachevars, groupvars>>

\* int_to_graph(i), n left at its default 1
IntToGraph ==
    /\ Len(trail) < 2
    /\ cur.kind = "int"
    /\ cur' = int_to_graph(cur.v.int, 1)
    /\ trail' = Append(trail, Applied("int_to_graph", 1))
    /\ UNCHANGED <<orig, scipy, pqvars, cachevars, groupvars>>

NextGraph ==
    \/ GraphToInt
    \/ IntToGraph

SpecGraph == InitGraph /\ [][NextGraph]_vars

\* the least n >= 1 with 2^C(n,2) > i
RECURSIVE MinimalN(_, _)
MinimalN(i, n) == IF 2 ^ ((n * (n - 1)) \div 2) > i THEN n ELSE MinimalN(i, n + 1)

\* C15: for a graph G on the nodes 1..n with n minimal for its code,
\* int_to_graph(graph_to_int(G)) has the nodes and the edges of G.
GraphRoundTrip ==
    (/\ orig.kind = "graph"
     /\ Len(trail) = 2
     /\ orig.v.nodes = 1..MinimalN(graph_to_int(orig.v), 1)) =>
        /\ cur.kind = "graph"
        /\ cur.v.nodes = orig.v.nodes
        /\ cur.v.edges = orig.v.edges


(***************************************************************************)
(* xprimes and the sequence codec (serialize.py).  A generator xprimes()   *)
(* is the record of its locals and of the numbers it has found in the      *)
(* current interval and not yet yielded (ready).                           *)
(***************************************************************************)
MaxSeqLen == 3     \* seq_to_int is given sequences of at most MaxSeqLen numbers
MaxExp == 2        \* each of them in 0..MaxExp
MaxCode == 40      \* int_to_seq is given the integers 1..MaxCode

step == 1000

\* xprimes(): the generator before its first next()
xprimes_start ==
    [primes |-> <<2>>, multiples |-> <<4>>, lower |-> 2, upper |-> 4,
     ready |-> <<>>, fresh |-> TRUE]

\* the loop "for i, p in enumerate(primes)" from index i on: mark the
\* multiples of p below upper, until p * p > upper
RECURSIVE mark(_, _, _, _, _)
mark(primes, multiples, upper, i, nums) ==
    IF i > Len(primes) \/ primes[i] * primes[i] > upper
    THEN [multiples |-> multiples, nums |-> nums]
    ELSE LET p == primes[i]
             m == multiples[i]
             marked == {x \in m..(upper - 1) : (x - m) % p = 0}
             left == IF m < upper THEN m + p * (((upper - 1 - m) \div p) + 1) ELSE m
         IN mark(primes, [multiples EXCEPT ![i] = left], upper, i + 1, nums \cup marked)

\* the numbers of lower..upper-1 that are not in nums, in order
unmarked(lower, upper, nums) ==
    sorted({x \in lower..(upper - 1) : x \notin nums})

\* one pass of "while True": mark, then collect the primes of the interval
\* (each is appended to primes, and twice itself to multiples, as it is
\* yielded); the pass after moves the interval up first
sieve(g) ==
    LET lower == IF g.fresh THEN g.lower ELSE g.upper + 1
        upper == IF g.fresh THEN g.upper
                 ELSE g.upper + (IF g.upper < step THEN g.upper ELSE step)
        m == mark(g.primes, g.multiples, upper, 1, {})
        found == unmarked(lower, upper, m.nums)
    IN [primes |-> g.primes \o found,
        multiples |-> m.multiples \o [j \in 1..Len(found) |-> found[j] + found[j]],
        lower |-> lower, upper |-> upper, ready |-> found, fresh |-> FALSE]

\* next(prime): the number yielded and the generator after
RECURSIVE xprimes_next(_)
xprimes_next(g) ==
    IF g.ready # <<>>
    THEN [p |-> Head(g.ready), g |-> [g EXCEPT !.ready = Tail(g.ready)]]
    ELSE xprimes_next(sieve(g))

\* p ** j
RECURSIVE pow(_, _)
pow(p, j) == IF j = 0 THEN 1 ELSE p * pow(p, j - 1)

\* the loop of seq_to_int over zip(xprimes(), s), from the n-th pair on
RECURSIVE seq_to_int_loop(_, _, _, _)
seq_to_int_loop(s, n, g, i) ==
    IF n > Len(s) THEN i
    ELSE LET nx == xprimes_next(g)
         IN seq_to_int_loop(s, n + 1, nx.g, i * pow(nx.p, s[n]))

\* seq_to_int whose primes start at the second one xprimes yields
seq_to_int_skip(s) == seq_to_int_loop(s, 1, xprimes_next(xprimes_start).g, 1)

\* seq_to_int
seq_to_int(s) == seq_to_int_loop(s, 1, xprimes_start, 1)

\* while i % p == 0: s[-1] += 1; i /= p, for i # 0: the count and what is
\* left of i
RECURSIVE divide_out(_, _, _)
divide_out(i, p, count) ==
    IF i % p = 0 THEN divide_out(i \div p, p, count + 1)
    ELSE [i |-> i, count |-> count]

\* the loop "while i != 1" of int_to_seq, for i >= 1
RECURSIVE int_to_seq_loop(_, _, _)
int_to_seq_loop(i, s, g) ==
    IF i = 1 THEN s
    ELSE LET nx == xprimes_next(g)
             d == divide_out(i, nx.p, 0)
         IN int_to_seq_loop(d.i, Append(s, d.count), nx.g)

\* int_to_seq, for i >= 1
int_to_seq(i) == int_to_seq_loop(i, <<>>, xprimes_start)

SeqVal(s) == Val("seq", [seq |-> s])

\* the sequences of at most n numbers of 0..MaxExp
RECURSIVE SeqsUpTo(_)
SeqsUpTo(n) ==
    IF n = 0 THEN {<<>>}
    ELSE LET shorter == SeqsUpTo(n - 1)
         IN shorter \cup {Append(s, x) : s \in shorter, x \in 0..MaxExp}

InitSeq ==
    /\ PQStart /\ CacheStart(1, TRUE) /\ GroupIdle
    /\ orig \in {SeqVal(s) : s \in SeqsUpTo(MaxSeqLen)} \cup {IntVal(i) : i \in 1..MaxCode}
    /\ cur = orig
    /\ trail = <<>>
    /\ scipy = FALSE

SeqToInt ==
    /\ Len(trail) < 2
    /\ cur.kind = "seq"
    /\ cur' = IntVal(seq_to_int(cur.v.seq))
    /\ trail' = Append(trail, Applied("seq_to_int", 0))
    /\ UNCHANGED <<orig, scipy, pqvars, cachevars, groupvars>>

IntToSeq ==
    /\ Len(trail) < 2
    /\ cur.kind = "int"
    /\ cur.v.int >= 1
    /\ cur' = SeqVal(int_to_seq(cur.v.int))
    /\ trail' = Append(trail, Applied("int_to_seq", 0))
    /\ UNCHANGED <<orig, scipy, pqvars, cachevars, groupvars>>

NextSeq ==
    \/ SeqToInt
    \/ IntToSeq

SpecSeq == InitSeq /\ [][NextSeq]_vars

\* C16 as stated: for every finite sequence s of non-negative integers,
\* int_to_seq(seq_to_int(s)) equals s.
SeqRoundTrip ==
    (orig.kind = "seq" /\ Len(trail) = 2) =>
        (cur.kind = "seq" /\ cur.v.seq = orig.v.seq)

\* s without the zeros it ends in
RECURSIVE Stripped(_)
Stripped(s) ==
    IF s # <<>> /\ s[Len(s)] = 0 THEN Stripped(SubSeq(s, 1, Len(s) - 1)) ELSE s

\* C16 as amended: int_to_seq(seq_to_int(s)) is s without the zeros it ends
\* in, so it equals s for every s that does not end in 0 (for [2,0,1], whose
\* code is 20), and seq_to_int(int_to_seq(i)) = i for every i >= 1, where
\* int_to_seq(i) does not end in 0.
SeqRoundTripNoTrailingZero ==
    /\ (orig.kind = "seq" /\ Len(trail) = 2) =>
           (cur.kind = "seq" /\ cur.v.seq = Stripped(orig.v.seq))
    /\ (orig.kind = "seq" /\ orig.v.seq = <<2, 0, 1>> /\ Len(trail) = 1) =>
           cur = IntVal(20)
    /\ (orig.kind = "int" /\ Len(trail) >= 1) =>
           /\ Len(trail) = 1 =>
                  (cur.kind = "seq" /\ Stripped(cur.v.seq) = cur.v.seq)
           /\ Len(trail) = 2 => cur = orig

\* [2,0,1] has been encoded and decoded back
SeqRoundTripWitness ==
    /\ orig = SeqVal(<<2, 0, 1>>)
    /\ Len(trail) = 2
    /\ cur = orig


(***************************************************************************)
(* Cycle decompositions and their counts (functions.py).                   *)
(***************************************************************************)
MaxCyc == 3        \* equivalent is given arrangements of 1..n, n <= MaxCyc

\* the loop "while perm[cur_elt] != cur_cycle[0]" of cycle_decomposition
RECURSIVE cycle_from(_, _, _)
cycle_from(perm, cur_cycle, cur_elt) ==
    IF getitem(perm, cur_elt) # cur_cycle[1]
    THEN cycle_from(perm, Append(cur_cycle, getitem(perm, cur_elt)),
                    getitem(perm, cur_elt))
    ELSE cur_cycle

\* the loop "for lt in perm.letters" of cycle_decomposition, from the j-th
\* letter on
RECURSIVE cycles_loop(_, _, _, _, _)
cycles_loop(perm, letters, j, cycles, visited) ==
    IF j > Len(letters) THEN cycles
    ELSE IF getitem(perm, letters[j]) \notin visited
    THEN LET c == cycle_from(perm, <<getitem(perm, letters[j])>>,
                             getitem(perm, letters[j]))
         IN cycles_loop(perm, letters, j + 1, Append(cycles, c),
                        visited \cup Range(c))
    ELSE cycles_loop(perm, letters, j + 1, cycles, visited)

\* cycle_decomposition(perm): the list of the cycles, fixed points included
cycle_decomposition(perm) == cycles_loop(perm, sorted(perm.letters), 1, <<>>, {})

\* CycleCount.__init__: Counter(len(cycle) for cycle in cycles), a
\* dictionary from the lengths that occur to how often they do
CycleCount(perm) ==
    LET cycles == cycle_decomposition(perm)
    IN [n \in {Len(cycles[j]) : j \in 1..Len(cycles)} |->
           Cardinality({j \in 1..Len(cycles) : Len(cycles[j]) = n})]

\* CycleCount.__getitem__: a Counter gives 0 for a length that is no key
count_getitem(count, i) == IF i \in DOMAIN count THEN count[i] ELSE 0

\* max(self.count)
max_key(count) == CHOOSE m \in DOMAIN count : \A k \in DOMAIN count : k <= m

\* CycleCount.__iter__: self[i] for i in xrange(2, max(self.count) + 1)
count_iter(count) ==
    [j \in 1..(max_key(count) - 1) |-> count_getitem(count, j + 1)]

\* CycleCount.__eq__ that compares the counts of every length either holds
count_eq_all(c1, c2) ==
    \A n \in (DOMAIN c1 \cup DOMAIN c2) \ {1} :
        count_getitem(c1, n) = count_getitem(c2, n)

\* CycleCount.__eq__ between two counts: it.izip stops with the shorter of
\* the two iterations
count_eq(c1, c2) ==
    LET i1 == count_iter(c1)
        i2 == count_iter(c2)
    IN \A j \in 1..(IF Len(i1) < Len(i2) THEN Len(i1) ELSE Len(i2)) : i1[j] = i2[j]

\* CycleDecomposition.equivalent(p1, p2); max() of a Counter with no key
\* (a permutation with no letters) raises ValueError
equivalent(p1, p2) ==
    LET c1 == CycleCount(p1)
        c2 == CycleCount(p2)
    IN IF DOMAIN c1 = {} \/ DOMAIN c2 = {} THEN Raised("ValueError")
       ELSE Val("bool", [bool |-> count_eq(c1, c2)])

InitCycle ==
    /\ PQStart /\ CacheStart(1, TRUE) /\ GroupIdle
    /\ \E l1, l2 \in UNION {ArrangementsOf(n) : n \in 1..MaxCyc} :
           orig = Val("pair", [p1 |-> PermutationOfList(l1),
                               p2 |-> PermutationOfList(l2)])
    /\ cur = orig
    /\ trail = <<>>
    /\ scipy = FALSE

Equivalent ==
    /\ trail = <<>>
    /\ cur.kind = "pair"
    /\ cur' = equivalent(cur.v.p1, cur.v.p2)
    /\ trail' = Append(trail, Applied("equivalent", 0))
    /\ UNCHANGED <<orig, scipy, pqvars, cachevars, groupvars>>

NextCycle == Equivalent

SpecCycle == InitCycle /\ [][NextCycle]_vars

\* how many cycles of length n the map of p on its letters has: the letters
\* x that are back at x after n steps and not before, n to a cycle
RECURSIVE Steps(_, _, _)
Steps(p, x, n) == IF n = 0 THEN x ELSE Steps(p, getitem(p, x), n - 1)

Multiplicity(p, n) ==
    Cardinality({x \in p.letters :
                    /\ Steps(p, x, n) = x
                    /\ \A m \in 1..(n - 1) : Steps(p, x, m) # x}) \div n

\* C17: equivalent(p1, p2) is true when p1 and p2 have as many cycles of
\* every length >= 2 as each other, whatever the cycles are, and false when
\* they differ in the number of cycles of some length >= 2.
FingerprintEquivalence ==
    (orig.kind = "pair" /\ Len(trail) = 1) =>
        /\ cur.kind = "bool"
        /\ cur.v.bool = (\A n \in 2..MaxCyc :
                            Multiplicity(orig.v.p1, n) = Multiplicity(orig.v.p2, n))


(***************************************************************************)
(* The decoders given any integer, negative ones too.  int_to_set and      *)
(* int_to_seq run a loop that a negative integer never leaves (int_to_seq  *)
(* given 0 never leaves its inner loop), so they are taken one pass of the *)
(* loop at a time: while one runs, cur is the record of its locals and of  *)
(* the passes made.                                                        *)
(***************************************************************************)
MaxDecode == 4     \* the decoders are given the integers -MaxDecode..MaxDecode
MaxPasses == 4     \* a loop is followed for at most MaxPasses passes

InitDecode ==
    /\ PQStart /\ CacheStart(1, TRUE) /\ GroupIdle
    /\ orig \in {IntVal(i) : i \in (-MaxDecode)..MaxDecode}
    /\ cur = orig
    /\ trail = <<>>
    /\ scipy \in BOOLEAN

\* int_to_set(i): s = set(); j = 1
IntToSetStart ==
    /\ trail = <<>>
    /\ cur.kind = "int"
    /\ cur' = Val("running", [fn |-> "int_to_set", i |-> cur.v.int, j |-> 1,
                              s |-> {}, passes |-> 0])
    /\ trail' = Append(trail, Applied("int_to_set", 0))
    /\ UNCHANGED <<orig, scipy, pqvars, cachevars, groupvars>>

\* one pass of "while i != 0": if i & 1: s.add(j); i >>= 1; j += 1
IntToSetPass ==
    /\ cur.kind = "running"
    /\ cur.v.fn = "int_to_set"
    /\ cur.v.i # 0
    /\ cur.v.passes < MaxPasses
    /\ cur' = Val("running",
                  [fn |-> "int_to_set",
                   i |-> cur.v.i \div 2,
                   j |-> cur.v.j + 1,
                   s |-> IF bit_and(cur.v.i, 1) THEN cur.v.s \cup {cur.v.j} ELSE cur.v.s,
                   passes |-> cur.v.passes + 1])
    /\ UNCHANGED <<orig, trail, scipy, pqvars, cachevars, groupvars>>

\* return s, once i == 0
IntToSetReturn ==
    /\ cur.kind = "running"
    /\ cur.v.fn = "int_to_set"
    /\ cur.v.i = 0
    /\ cur' = Val("set", [set |-> cur.v.s])
    /\ UNCHANGED <<orig, trail, scipy, pqvars, cachevars, groupvars>>

\* int_to_seq(i): s = []; prime = xprimes()
IntToSeqStart ==
    /\ trail = <<>>
    /\ cur.kind = "int"
    /\ cur' = Val("running", [fn |-> "int_to_seq", i |-> cur.v.int, s |-> <<>>,
                              g |-> xprimes_start, p |-> 0, pc |-> "outer",
                              passes |-> 0])
    /\ trail' = Append(trail, Applied("int_to_seq", 0))
    /\ UNCHANGED <<orig, scipy, pqvars, cachevars, groupvars>>

\* one pass of "while i != 1" up to the inner loop: s.append(0);
\* p = next(prime)
IntToSeqPass ==
    /\ cur.kind = "running"
    /\ cur.v.fn = "int_to_seq"
    /\ cur.v.pc = "outer"
    /\ cur.v.i # 1
    /\ cur.v.passes < MaxPasses
    /\ \E nx \in {xprimes_next(cur.v.g)} :
           cur' = Val("running", [cur.v EXCEPT !.s = Append(cur.v.s, 0),
                                               !.g = nx.g,
                                               !.p = nx.p,
                                               !.pc = "inner",
                                               !.passes = cur.v.passes + 1])
    /\ UNCHANGED <<orig, trail, scipy, pqvars, cachevars, groupvars>>

\* a test of "while i % p == 0": s[-1] += 1; i /= p, or the loop is left.
\* For i = 0 the test never fails; the loop is followed for MaxPasses turns.
IntToSeqInner ==
    /\ cur.kind = "running"
    /\ cur.v.fn = "int_to_seq"
    /\ cur.v.pc = "inner"
    /\ cur.v.i % cur.v.p = 0 => cur.v.s[Len(cur.v.s)] < MaxPasses
    /\ cur' = IF cur.v.i % cur.v.p = 0
              THEN Val("running",
                       [cur.v EXCEPT !.i = cur.v.i \div cur.v.p,
                                     !.s = [cur.v.s EXCEPT ![Len(cur.v.s)] = @ + 1]])
              ELSE Val("running", [cur.v EXCEPT !.pc = "outer"])
    /\ UNCHANGED <<orig, trail, scipy, pqvars, cachevars, groupvars>>

\* return s, once i == 1
IntToSeqReturn ==
    /\ cur.kind = "running"
    /\ cur.v.fn = "int_to_seq"
    /\ cur.v.pc = "outer"
    /\ cur.v.i = 1
    /\ cur' = SeqVal(cur.v.s)
    /\ UNCHANGED <<orig, trail, scipy, pqvars, cachevars, groupvars>>

\* each decoder called once on the integer, int_to_perm and int_to_graph
\* with n left at its default
NextDecode ==
    \/ trail = <<>> /\ IntToPerm(1)
    \/ trail = <<>> /\ IntToGraph
    \/ IntToSetStart
    \/ IntToSetPass
    \/ IntToSetReturn
    \/ IntToSeqStart
    \/ IntToSeqPass
    \/ IntToSeqInner
    \/ IntToSeqReturn

SpecDecode == InitDecode /\ [][NextDecode]_vars

\* C18: a decoder given a negative integer signals an error: it does not
\* return an object, and it does not run on in its loop (here: up to
\* MaxPasses passes) without raising.
NegativeRejected ==
    (orig.v.int < 0 /\ Len(trail) = 1) =>
        \/ cur.kind = "raised"
        \/ cur.kind = "running" /\ cur.v.passes < MaxPasses


(***************************************************************************)
(* Bijection and Permutation objects built from dictionaries and compared  *)
(* (functions.py).  A plain Bijection is the record of f and finv; its     *)
(* inverse object holds the same two dictionaries the other way round.     *)
(***************************************************************************)
NPoints == 3       \* the dictionaries given map points of 1..NPoints

\* {val: key for key, val in self.f.iteritems()}
finv_of(f) ==
    [v \in {f[k] : k \in DOMAIN f} |-> CHOOSE k \in DOMAIN f : f[k] = v]

\* Bijection(d): self.f, self.finv
BijectionObject(d) == [f |-> Bijection(d), finv |-> finv_of(Bijection(d))]

\* self.inv = Bijection(self.finv, inv=self): f is finv, finv is inv.f
inv_of(b) == [f |-> b.finv, finv |-> b.f]

\* the one-to-one dictionaries on points of 1..NPoints
Injections ==
    UNION {{d \in [S -> 1..NPoints] : \A x, y \in S : d[x] = d[y] => x = y} :
              S \in SUBSET (1..NPoints)}

\* those that map their keys onto their keys
PermutationDicts == {d \in Injections : {d[x] : x \in DOMAIN d} = DOMAIN d}

\* what a constructor is called with: the class and the dictionary
ConstructorArgs ==
    {[cls |-> "Bijection", d |-> d] : d \in Injections}
    \cup {[cls |-> "Permutation", d |-> d] : d \in PermutationDicts}

\* Bijection(d) or Permutation(d)
construct(a) ==
    IF a.cls = "Permutation" THEN Permutation(a.d) ELSE BijectionObject(a.d)

InitBij ==
    /\ PQStart /\ CacheStart(1, TRUE) /\ GroupIdle
    /\ \E a, b \in ConstructorArgs : orig = Val("args", [a |-> a, b |-> b])
    /\ cur = orig
    /\ trail = <<>>
    /\ scipy = FALSE

\* the two objects are constructed
Construct ==
    /\ trail = <<>>
    /\ cur.kind = "args"
    /\ cur' = Val("objects", [a |-> construct(cur.v.a), b |-> construct(cur.v.b)])
    /\ trail' = Append(trail, Applied("__init__", 0))
    /\ UNCHANGED <<orig, scipy, pqvars, cachevars, groupvars>>

\* a == b
Eq ==
    /\ Len(trail) = 1
    /\ cur.kind = "objects"
    /\ cur' = Val("bool", [bool |-> eq(cur.v.a, cur.v.b)])
    /\ trail' = Append(trail, Applied("__eq__", 0))
    /\ UNCHANGED <<orig, scipy, pqvars, cachevars, groupvars>>

NextBij ==
    \/ Construct
    \/ Eq

SpecBij == InitBij /\ [][NextBij]_vars

\* no pair key = value in f or finv, and f[k] = v exactly when finv[v] = k
Consistent(b) ==
    /\ \A k \in DOMAIN b.f : b.f[k] # k
    /\ \A v \in DOMAIN b.finv : b.finv[v] # v
    /\ \A k, v \in 1..NPoints :
           (k \in DOMAIN b.f /\ b.f[k] = v) <=> (v \in DOMAIN b.finv /\ b.finv[v] = k)

\* C19: a Bijection constructed from a one-to-one mapping stores no pair
\* (k, v) with k = v in its forward or inverse map, the two maps are
\* consistent (forward[k] = v iff inverse[v] = k), the forward map is the
\* mapping without its identity pairs, and the same holds of its inverse.
BijectionInvariant ==
    (cur.kind = "objects" /\ orig.v.a.cls = "Bijection") =>
        /\ Consistent(cur.v.a)
        /\ Consistent(inv_of(cur.v.a))
        /\ \A k \in DOMAIN orig.v.a.d :
               IF orig.v.a.d[k] = k
               THEN k \notin DOMAIN cur.v.a.f
               ELSE k \in DOMAIN cur.v.a.f /\ cur.v.a.f[k] = orig.v.a.d[k]
        /\ DOMAIN cur.v.a.f \subseteq DOMAIN orig.v.a.d

\* a Bijection has been built from a mapping with a fixed point and two
\* moved points
BijectionInvariantWitness ==
    /\ cur.kind = "objects"
    /\ orig.v.a.cls = "Bijection"
    /\ \E k \in DOMAIN orig.v.a.d : orig.v.a.d[k] = k
    /\ Cardinality(DOMAIN cur.v.a.f) = 2
    /\ Cardinality(DOMAIN cur.v.a.finv) = 2

\* the image of x under the mapping d, points that are no key being fixed
ImageUnder(d, x) == IF x \in DOMAIN d THEN d[x] ELSE x

\* the points the mapping d moves
MovedBy(d) == {x \in DOMAIN d : d[x] # x}

MaxSym == 2        \* the symbols are 1..MaxSym
MaxArr == 3        \* arrangements have up to MaxArr symbols

\* list(reversed(sorted(v))) for the set of positions of elt in f
positions_of(f, elt) ==
    LET up == sorted({i \in 1..Len(f) : f[i] = elt})
    IN [i \in 1..Len(up) |-> up[Len(up) + 1 - i]]

\* the dictionary positions: one list for every symbol of f
positions(f) == [elt \in {f[i] : i \in 1..Len(f)} |-> positions_of(f, elt)]

\* a pop that takes the first item of the list
list_pop_first(l) == [item |-> l[1], rest |-> Tail(l)]

\* list.pop(): the last item of the list
list_pop(l) == [item |-> l[Len(l)], rest |-> SubSeq(l, 1, Len(l) - 1)]

\* for i, elt in enumerate(order): h[i + 1] = positions[elt].pop()
RECURSIVE match_loop(_, _, _, _)
match_loop(order, i, pos, h) ==
    IF i > Len(order) THEN [err |-> "", h |-> h]
    ELSE IF order[i] \notin DOMAIN pos THEN [err |-> "KeyError", h |-> h]
    ELSE IF pos[order[i]] = <<>> THEN [err |-> "IndexError", h |-> h]
    ELSE LET r == list_pop(pos[order[i]])
         IN match_loop(order, i + 1,
                       [pos EXCEPT ![order[i]] = r.rest],
                       dict_set(h, i, r.item))

\* Permutation(f, order) with an order given: the letters are the positions
\* of f, the map is h without its identity pairs
PermutationOfOrder(f, order) ==
    LET m == match_loop(order, 1, positions(f), <<>>)
    IN IF m.err # "" THEN Raised(m.err)
       ELSE Val("permutation", [f |-> Bijection(m.h), letters |-> 1..Len(f)])

\* the arrangements of up to MaxArr symbols
SymbolLists == UNION {[1..n -> 1..MaxSym] : n \in 0..MaxArr}

InitOrder ==
    /\ PQStart /\ CacheStart(1, TRUE) /\ GroupIdle
    /\ \E f, order \in SymbolLists : orig = Val("args", [f |-> f, order |-> order])
    /\ cur = orig
    /\ trail = <<>>
    /\ scipy = FALSE

\* Permutation(f, order)
NewPermutation ==
    /\ trail = <<>>
    /\ cur.kind = "args"
    /\ cur' = PermutationOfOrder(cur.v.f, cur.v.order)
    /\ trail' = Append(trail, Applied("Permutation", 0))
    /\ UNCHANGED <<orig, scipy, pqvars, cachevars, groupvars>>

NextOrder == NewPermutation

SpecOrder == InitOrder /\ [][NextOrder]_vars

\* the positions of the symbol order[i] in f that the earlier elements of
\* order have not been given
Remaining(p, f, order, i) ==
    {k \in 1..Len(f) : f[k] = order[i]} \
        {getitem(p, j) : j \in {j \in 1..(i - 1) : order[j] = order[i]}}

\* C21 as stated: every element of order is given the largest position of
\* its symbol in f that is still unused.
RightmostFirst ==
    cur.kind = "permutation" =>
        \A i \in 1..Len(orig.v.order) :
            /\ getitem(cur.v, i) \in Remaining(cur.v, orig.v.f, orig.v.order, i)
            /\ \A k \in Remaining(cur.v, orig.v.f, orig.v.order, i) :
                   k <= getitem(cur.v, i)

\* C21 (amended): every element of order is given the smallest position of
\* its symbol in f that is still unused, so repeated symbols are matched
\* left to right; the letters of the result are the positions of f.
LeftmostFirst ==
    cur.kind = "permutation" =>
        /\ cur.v.letters = 1..Len(orig.v.f)
        /\ \A i \in 1..Len(orig.v.order) :
               /\ getitem(cur.v, i) \in Remaining(cur.v, orig.v.f, orig.v.order, i)
               /\ \A k \in Remaining(cur.v, orig.v.f, orig.v.order, i) :
                      getitem(cur.v, i) <= k

\* a permutation has been built from arrangements of three symbols in which
\* one symbol occurs twice and that move a point
LeftmostFirstWitness ==
    /\ cur.kind = "permutation"
    /\ Len(orig.v.order) = 3
    /\ orig.v.order[1] = orig.v.order[3]
    /\ orig.v.order[1] # orig.v.order[2]
    /\ orig.v.f[1] = orig.v.f[2]
    /\ cur.v.f # <<>>

(***************************************************************************)
(* cycle_decomposition step by step (functions.py): one action for a turn  *)
(* of "for lt in perm.letters", one for a turn of the inner while loop.    *)
(***************************************************************************)
\* a test that finds every letter unvisited
unvisited_always(perm, lt, visited) == TRUE

\* if perm[lt] not in visited
unvisited(perm, lt, visited) == getitem(perm, lt) \notin visited

\* the locals of cycle_decomposition; j counts the letters taken
Decomposing(perm, j, cycles, visited, cur_cycle, cur_elt, pc) ==
    Val("decomposing",
        [perm |-> perm, j |-> j, cycles |-> cycles, visited |-> visited,
         cur_cycle |-> cur_cycle, cur_elt |-> cur_elt, pc |-> pc])

InitDecomposition ==
    /\ PQStart /\ CacheStart(1, TRUE) /\ GroupIdle
    /\ \E d \in PermutationDicts : orig = Val("permutation", Permutation(d))
    /\ cur = orig
    /\ trail = <<>>
    /\ scipy = FALSE

\* cycle_decomposition(perm): cycles = []; visited = set()
DecompositionStart ==
    /\ trail = <<>>
    /\ cur.kind = "permutation"
    /\ cur' = Decomposing(cur.v, 1, <<>>, {}, <<>>, 0, "for")
    /\ trail' = Append(trail, Applied("cycle_decomposition", 0))
    /\ UNCHANGED <<orig, scipy, pqvars, cachevars, groupvars>>

\* one turn of "for lt in perm.letters" up to the while loop
DecompositionFor ==
    /\ cur.kind = "decomposing"
    /\ cur.v.pc = "for"
    /\ cur.v.j <= Cardinality(cur.v.perm.letters)
    /\ LET lt == sorted(cur.v.perm.letters)[cur.v.j]
           img == getitem(cur.v.perm, lt)
       IN cur' = IF unvisited(cur.v.perm, lt, cur.v.visited)
                 THEN Decomposing(cur.v.perm, cur.v.j, cur.v.cycles,
                                  cur.v.visited \cup {img}, <<img>>, img, "while")
                 ELSE Decomposing(cur.v.perm, cur.v.j + 1, cur.v.cycles,
                                  cur.v.visited, cur.v.cur_cycle, cur.v.cur_elt, "for")
    /\ UNCHANGED <<orig, trail, scipy, pqvars, cachevars, groupvars>>

\* one test of "while perm[cur_elt] != cur_cycle[0]": a turn of its body,
\* or cycles.append(cur_cycle) and the next letter
DecompositionWhile ==
    /\ cur.kind = "decomposing"
    /\ cur.v.pc = "while"
    /\ LET img == getitem(cur.v.perm, cur.v.cur_elt)
       IN cur' = IF img # cur.v.cur_cycle[1]
                 THEN Decomposing(cur.v.perm, cur.v.j, cur.v.cycles,
                                  cur.v.visited \cup {img},
                                  Append(cur.v.cur_cycle, img), img, "while")
                 ELSE Decomposing(cur.v.perm, cur.v.j + 1,
                                  Append(cur.v.cycles, cur.v.cur_cycle),
                                  cur.v.visited, cur.v.cur_cycle, cur.v.cur_elt, "for")
    /\ UNCHANGED <<orig, trail, scipy, pqvars, cachevars, groupvars>>

\* return cycles, once the letters are used up
DecompositionReturn ==
    /\ cur.kind = "decomposing"
    /\ cur.v.pc = "for"
    /\ cur.v.j > Cardinality(cur.v.perm.letters)
    /\ cur' = Val("cycles", [cycles |-> cur.v.cycles])
    /\ UNCHANGED <<orig, trail, scipy, pqvars, cachevars, groupvars>>

NextDecomposition ==
    \/ DecompositionStart
    \/ DecompositionFor
    \/ DecompositionWhile
    \/ DecompositionReturn

SpecDecomposition == InitDecomposition /\ [][NextDecomposition]_vars

\* the call is not suspended: a step that can be taken is taken
FairSpecDecomposition == SpecDecomposition /\ WF_vars(NextDecomposition)

\* every letter of perm is at exactly one place of exactly one cycle, and
\* every element of a cycle is followed, cyclically, by its image
IsDecomposition(perm, cycles) ==
    /\ \A lt \in perm.letters :
           Cardinality({<<c, k>> \in (1..Len(cycles)) \X (1..Cardinality(perm.letters)) :
                           k <= Len(cycles[c]) /\ cycles[c][k] = lt}) = 1
    /\ \A c \in 1..Len(cycles) :
           /\ Len(cycles[c]) >= 1
           /\ \A k \in 1..Len(cycles[c]) :
                  /\ cycles[c][k] \in perm.letters
                  /\ getitem(perm, cycles[c][k]) = cycles[c][(k % Len(cycles[c])) + 1]

\* C22: for a well-defined permutation, cycle_decomposition returns, and
\* what it returns holds every letter exactly once in exactly one cycle,
\* every element of a cycle being followed (cyclically) by its image.
DecompositionCorrect ==
    /\ <>(cur.kind = "cycles")
    /\ [](cur.kind = "cycles" => IsDecomposition(orig.v, cur.v.cycles))

\* the decomposition of a permutation with a fixed point among its letters
\* and a cycle of two has been returned
DecompositionCorrectWitness ==
    /\ cur.kind = "cycles"
    /\ Len(cur.v.cycles) = 2
    /\ \E c \in 1..2 : Len(cur.v.cycles[c]) = 2

(***************************************************************************)
(* cyclic_group (functions.py) as its callers get it: wrapped by lru_cache *)
(* (cache.py).  Two calls are made one after the other, so that the second *)
(* may be answered from the cache; generate_group is run on one of the two *)
(* arguments for comparison.  The cache is the set of its (key, value)     *)
(* entries: its heap of timestamps only chooses what to throw away once    *)
(* cachesize entries are held.                                             *)
(***************************************************************************)
cachesize == 720

\* key in cache: an entry whose key has the hash of elt and equals it
cache_entries(held, elt) ==
    {e \in held : hash(e.key) = hash(elt) /\ eq(e.key, elt)}

\* cache[key]
cache_value(held, elt) == (CHOOSE e \in cache_entries(held, elt) : TRUE).value

\* a while test of cyclic_group that lets the loop run one turn only
cyclic_done_early(grp, g) == Cardinality(grp) >= 2 \/ contains(grp, g)

\* the test "g not in group" of cyclic_group's loop, negated
cyclic_done(grp, g) == contains(grp, g)

\* the locals of the wrapper and of cyclic_group: the call being made, the
\* cache, what the calls so far returned
Cyclic(n, pc, elt, g, grp, held, rets) ==
    Val("cyclic", [n |-> n, pc |-> pc, elt |-> elt, g |-> g, group |-> grp,
                   cache |-> held, rets |-> rets])

\* the well-defined permutations given
WellDefined == {Permutation(d) : d \in PermutationDicts}

\* the arguments of the two calls, and which of them generate_group gets
InitCyclic ==
    /\ PQStart /\ CacheStart(1, TRUE)
    /\ \E g1, g2 \in WellDefined : \E c \in 1..2 :
           /\ orig = Val("args", [elts |-> <<g1, g2>>, compared |-> c])
           /\ gens = {<<g1, g2>>[c]}
    /\ new = gens
    /\ group = gens
    /\ computed = {}
    /\ todo = gens
    /\ gpc = "round"
    /\ before = gens
    /\ rounds = 0
    /\ call = 1
    /\ first = {}
    /\ cur = Cyclic(1, "call", orig.v.elts[1], orig.v.elts[1], {}, {}, <<>>)
    /\ trail = <<>>
    /\ scipy = FALSE

\* cached(elt): a hit returns cache[key]; a miss enters cyclic_group with
\* group = {elt}, g = Permutation(elt.of(elt))
CachedCall ==
    /\ gpc = "done"
    /\ cur.kind = "cyclic"
    /\ cur.v.pc = "call"
    /\ cur.v.n <= 2
    /\ LET elt == orig.v.elts[cur.v.n]
       IN cur' = IF cache_entries(cur.v.cache, elt) # {}
                 THEN Cyclic(cur.v.n + 1, "call", elt, elt, {}, cur.v.cache,
                             Append(cur.v.rets, cache_value(cur.v.cache, elt)))
                 ELSE Cyclic(cur.v.n, "while", elt, Permutation(of(elt, elt)),
                             {elt}, cur.v.cache, cur.v.rets)
    /\ trail' = Append(trail, Applied("cyclic_group", cur.v.n))
    /\ UNCHANGED <<orig, scipy, pqvars, cachevars, groupvars>>

\* one turn of "while g not in group": group.add(g); g = Permutation(elt.of(g))
CyclicWhile ==
    /\ cur.kind = "cyclic"
    /\ cur.v.pc = "while"
    /\ ~cyclic_done(cur.v.group, cur.v.g)
    /\ cur' = Cyclic(cur.v.n, "while", cur.v.elt,
                     Permutation(of(cur.v.elt, cur.v.g)),
                     cur.v.group \cup {cur.v.g}, cur.v.cache, cur.v.rets)
    /\ UNCHANGED <<orig, trail, scipy, pqvars, cachevars, groupvars>>

\* return group, cache.insert(key, value) in the wrapper, return value
CyclicReturn ==
    /\ cur.kind = "cyclic"
    /\ cur.v.pc = "while"
    /\ cyclic_done(cur.v.group, cur.v.g)
    /\ Cardinality(cur.v.cache) < cachesize
    /\ cur' = Cyclic(cur.v.n + 1, "call", cur.v.elt, cur.v.g, {},
                     cur.v.cache \cup {[key |-> cur.v.elt, value |-> cur.v.group]},
                     Append(cur.v.rets, cur.v.group))
    /\ UNCHANGED <<orig, trail, scipy, pqvars, cachevars, groupvars>>

NextCyclic ==
    \/ NextGroup
    \/ CachedCall
    \/ CyclicWhile
    \/ CyclicReturn

SpecCyclic == InitCyclic /\ [][NextCyclic]_vars

\* neither call is suspended
FairSpecCyclic == SpecCyclic /\ WF_vars(NextCyclic)

\* the map of p on the points, after n applications
Power(p, n) == [x \in 1..NPoints |-> Steps(p, x, n)]

\* the least n >= 1 with p applied n times the identity
Order(p) ==
    CHOOSE n \in 1..Factorial(NPoints) :
        /\ \A x \in 1..NPoints : Steps(p, x, n) = x
        /\ \A m \in 1..(n - 1) : \E x \in 1..NPoints : Steps(p, x, m) # x

\* the set R holds the powers of p up to the identity, each once
IsPowers(p, R) ==
    /\ {Power(r, 1) : r \in R} = {Power(p, n) : n \in 1..Order(p)}
    /\ Cardinality(R) = Order(p)

\* C23: both calls of cyclic_group return; what the call with argument g
\* returns is, as a set, equal to what generate_group({g}) returns, and it
\* holds the powers of g up to and including the identity, each once.
CyclicIsGenerated ==
    /\ <>(cur.v.n = 3)
    /\ [](cur.v.n = 3 =>
             /\ set_eq(cur.v.rets[orig.v.compared], group)
             /\ Cardinality(cur.v.rets[orig.v.compared]) = Cardinality(group)
             /\ \A c \in 1..2 : IsPowers(orig.v.elts[c], cur.v.rets[c]))

\* both calls have returned, the second from the cache for an argument that
\* lists other fixed points than the first, with a group of two
CyclicIsGeneratedWitness ==
    /\ cur.v.n = 3
    /\ Cardinality(cur.v.cache) = 1
    /\ orig.v.elts[1] # orig.v.elts[2]
    /\ orig.v.compared = 2
    /\ Cardinality(group) = 2
    /\ Cardinality(cur.v.rets[2]) = 2

(***************************************************************************)
(* The alternate permutation codec through inversion sequences             *)
(* (serialize.py).  A result is a record [err, ...]; err is "none" or the  *)
(* exception raised.  invert_merge is never entered: mergeunsort calls the *)
(* undefined name mergeinvert before it.                                   *)
(***************************************************************************)
MaxAlt == 3        \* the codec is given arrangements of 1..n, n <= MaxAlt

\* short_perm_to_inv_seq: inv_seq[perm[j] - 1] += 1 for every i < j with
\* perm[i] > perm[j]
short_perm_to_inv_seq(p) ==
    LET perm == list(p)
    IN [v \in 1..Len(perm) |->
           Cardinality({<<i, j>> \in (1..Len(perm)) \X (1..Len(perm)) :
                           i < j /\ perm[i] > perm[j] /\ perm[j] = v})]

\* inversions[elt], for a defaultdict(int) held as a dictionary
inversions_get(inversions, elt) ==
    IF elt \in DOMAIN inversions THEN inversions[elt] ELSE 0

\* merge: the loop "while il < lenl or ir < lenr", positions from 1
RECURSIVE merge_loop(_, _, _, _, _, _)
merge_loop(left, right, il, ir, merged, inversions) ==
    IF il > Len(left) /\ ir > Len(right)
    THEN [merged |-> merged, inversions |-> inversions]
    ELSE IF il <= Len(left) /\ ir <= Len(right)
    THEN IF left[il] <= right[ir]
         THEN merge_loop(left, right, il + 1, ir, Append(merged, left[il]), inversions)
         ELSE merge_loop(left, right, il, ir + 1, Append(merged, right[ir]),
                         dict_set(inversions, right[ir],
                                  inversions_get(inversions, right[ir])
                                      + (Len(left) - il + 1)))
    ELSE IF il <= Len(left)
    THEN merge_loop(left, right, il + 1, ir, Append(merged, left[il]), inversions)
    ELSE merge_loop(left, right, il, ir + 1, Append(merged, right[ir]), inversions)

merge(left, right, inversions) == merge_loop(left, right, 1, 1, <<>>, inversions)

\* mergesort: a list of one is returned as it is; the empty list is cut
\* into two empty lists without end, until the recursion limit
RECURSIVE mergesort(_, _)
mergesort(lst, inversions) ==
    IF Len(lst) = 1 THEN [err |-> "none", merged |-> lst, inversions |-> inversions]
    ELSE IF Len(lst) = 0
    THEN [err |-> "RuntimeError", merged |-> lst, inversions |-> inversions]
    ELSE LET cut_idx == (Len(lst) + 1) \div 2
             l == mergesort(SubSeq(lst, 1, cut_idx), inversions)
             r == mergesort(SubSeq(lst, cut_idx + 1, Len(lst)), l.inversions)
             m == merge(l.merged, r.merged, r.inversions)
         IN [err |-> "none", merged |-> m.merged, inversions |-> m.inversions]

\* long_perm_to_inv_seq: [inversions[i] for i in xrange(1, len(perm) + 1)],
\* len(perm) being Bijection.__len__ of the object given
long_perm_to_inv_seq(p) ==
    LET s == mergesort(list(p), <<>>)
    IN IF s.err # "none" THEN [err |-> s.err, inv_seq |-> <<>>]
       ELSE [err |-> "none",
             inv_seq |-> [i \in 1..len(p) |-> inversions_get(s.inversions, i)]]

\* inv_seq_to_int: sum(factorial(n - i) * inv_seq[i]), n = len(inv_seq) - 1
RECURSIVE inv_seq_sum(_, _)
inv_seq_sum(inv_seq, i) ==
    IF i > Len(inv_seq) THEN 0
    ELSE Factorial(Len(inv_seq) - i) * inv_seq[i] + inv_seq_sum(inv_seq, i + 1)

inv_seq_to_int(inv_seq) == inv_seq_sum(inv_seq, 1)

\* int_to_inv_seq: the loop "while n > 1", then inv_seq.append(0)
RECURSIVE int_to_inv_seq_loop(_, _, _)
int_to_inv_seq_loop(i, n, inv_seq) ==
    IF n > 1
    THEN int_to_inv_seq_loop(i % Factorial(n - 1), n - 1,
                             Append(inv_seq, i \div Factorial(n - 1)))
    ELSE Append(inv_seq, 0)

int_to_inv_seq(i, n) == int_to_inv_seq_loop(i, n, <<>>)

\* short_inv_seq_to_perm: the loop "while not placed" for the letter j,
\* i counting from 1; perm[i] past the end raises IndexError
RECURSIVE place_letter(_, _, _, _, _)
place_letter(perm, j, inv_count, i, num_zeros) ==
    IF i > Len(perm) THEN [err |-> "IndexError", perm |-> perm]
    ELSE IF perm[i] # 0 THEN place_letter(perm, j, inv_count, i + 1, num_zeros)
    ELSE IF num_zeros < inv_count
    THEN place_letter(perm, j, inv_count, i + 1, num_zeros + 1)
    ELSE [err |-> "none", perm |-> [perm EXCEPT ![i] = j]]

\* short_inv_seq_to_perm: the loop over the letters
RECURSIVE short_loop(_, _, _)
short_loop(inv_seq, j, perm) ==
    IF j > Len(inv_seq) THEN [err |-> "none", perm |-> perm]
    ELSE LET r == place_letter(perm, j, inv_seq[j], 1, 0)
         IN IF r.err # "none" THEN r ELSE short_loop(inv_seq, j + 1, r.perm)

short_inv_seq_to_perm(inv_seq) ==
    LET r == short_loop(inv_seq, 1, [j \in 1..Len(inv_seq) |-> 0])
    IN IF r.err # "none" THEN Raised(r.err)
       ELSE Val("permutation", PermutationOfList(r.perm))

\* mergeunsort: a list of at most one is copied; otherwise the call of
\* mergeinvert, a name the module does not define
mergeunsort(arr, inv_seq) ==
    IF Len(arr) <= 1 THEN [err |-> "none", perm |-> arr]
    ELSE [err |-> "NameError", perm |-> <<>>]

long_inv_seq_to_perm(inv_seq) ==
    LET r == mergeunsort([j \in 1..Len(inv_seq) |-> j], inv_seq)
    IN IF r.err # "none" THEN Raised(r.err)
       ELSE Val("permutation", PermutationOfList(r.perm))

\* alt_perm_to_int(perm, threshold)
alt_perm_to_int(p, threshold) ==
    IF len(p) < threshold THEN IntVal(inv_seq_to_int(short_perm_to_inv_seq(p)))
    ELSE LET r == long_perm_to_inv_seq(p)
         IN IF r.err # "none" THEN Raised(r.err)
            ELSE IntVal(inv_seq_to_int(r.inv_seq))

\* alt_int_to_perm(i, n, threshold)
alt_int_to_perm(i, n, threshold) ==
    LET inv_seq == int_to_inv_seq(i, n)
    IN IF Len(inv_seq) < threshold THEN short_inv_seq_to_perm(inv_seq)
       ELSE long_inv_seq_to_perm(inv_seq)

\* the thresholds given: from "always long" to "always short"
Thresholds == 0..(MaxAlt + 1)

InitAlt ==
    /\ PQStart /\ CacheStart(1, TRUE) /\ GroupIdle
    /\ \E n \in 1..MaxAlt : \E l \in ArrangementsOf(n) : \E t1, t2 \in Thresholds :
           orig = Val("args", [perm |-> PermutationOfList(l), n |-> n,
                               t1 |-> t1, t2 |-> t2])
    /\ cur = orig
    /\ trail = <<>>
    /\ scipy = FALSE

\* alt_perm_to_int(p, t1)
AltPermToInt ==
    /\ trail = <<>>
    /\ cur.kind = "args"
    /\ cur' = alt_perm_to_int(cur.v.perm, cur.v.t1)
    /\ trail' = Append(trail, Applied("alt_perm_to_int", cur.v.t1))
    /\ UNCHANGED <<orig, scipy, pqvars, cachevars, groupvars>>

\* alt_int_to_perm(i, n, t2)
AltIntToPerm ==
    /\ Len(trail) = 1
    /\ cur.kind = "int"
    /\ cur' = alt_int_to_perm(cur.v.int, orig.v.n, orig.v.t2)
    /\ trail' = Append(trail, Applied("alt_int_to_perm", orig.v.t2))
    /\ UNCHANGED <<orig, scipy, pqvars, cachevars, groupvars>>

NextAlt ==
    \/ AltPermToInt
    \/ AltIntToPerm

SpecAlt == InitAlt /\ [][NextAlt]_vars

\* C24: whatever the two thresholds, alt_perm_to_int returns an integer,
\* the same as on its short path, and alt_int_to_perm gives the permutation
\* back.
AltRoundTrip ==
    /\ Len(trail) >= 1 =>
           cur.kind # "raised"
    /\ Len(trail) = 1 =>
           cur = IntVal(inv_seq_to_int(short_perm_to_inv_seq(orig.v.perm)))
    /\ Len(trail) = 2 =>
           cur = Val("permutation", orig.v.perm)

(***************************************************************************)
(* The primary permutation codec and longer arrangements (serialize.py).   *)
(***************************************************************************)
\* the arrangement l of 1..n with the fixed points n + 1, ..., m appended
Extended(l, m) == [j \in 1..m |-> IF j <= Len(l) THEN l[j] ELSE j]

\* C25: perm_to_int gives an arrangement p of 1..n the code it gives p with
\* the fixed point n + 1 appended, and int_to_perm(perm_to_int(p), m) for
\* m >= n is p on the first n positions and fixes the positions after them.
PermEmbedding ==
    (orig.kind = "perm" /\ Len(trail) >= 1 /\ trail[1].fn = "perm_to_int") =>
        LET p == list(orig.v)
        IN /\ Len(trail) = 1 =>
                  cur = IntVal(perm_to_int(PermutationOfList(Extended(p, Len(p) + 1))))
           /\ (Len(trail) = 2 /\ trail[2].fn = "int_to_perm" /\ trail[2].n >= Len(p)) =>
                  /\ cur.kind = "perm"
                  /\ list(cur.v) = Extended(p, trail[2].n)

\* the code of an arrangement of 1..2 that moves its letters has been
\* decoded with length 4
PermEmbeddingWitness ==
    /\ orig.kind = "perm"
    /\ list(orig.v) = <<2, 1>>
    /\ Len(trail) = 2
    /\ trail[2] = Applied("int_to_perm", 4)
    /\ cur.kind = "perm"
    /\ list(cur.v) = <<2, 1, 3, 4>>

(***************************************************************************)
(* int_to_seq loop turn by loop turn (serialize.py), for the integers      *)
(* 0..MaxCode.  The inner loop runs for as long as its test holds; the     *)
(* exponent it counts is kept exactly up to MaxTurns, which no integer of  *)
(* 1..MaxCode reaches.                                                     *)
(***************************************************************************)
MaxTurns == 8      \* largest exponent counted exactly for one prime

\* a division that leaves i as it is
quotient_same(i, p) == i

\* i /= p
quotient(i, p) == i \div p

\* the first n values of the generator g
RECURSIVE xprimes_take(_, _)
xprimes_take(g, n) ==
    IF n = 0 THEN <<>>
    ELSE LET nx == xprimes_next(g)
         IN <<nx.p>> \o xprimes_take(nx.g, n - 1)

\* what xprimes() yields, as far as the integers up to MaxCode need it
xprimes_yield == xprimes_take(xprimes_start, MaxCode)

\* the locals of int_to_seq: i, s, how many values the generator prime has
\* yielded, the prime p in hand
Dividing(i, s, k, p, pc) ==
    Val("dividing", [i |-> i, s |-> s, k |-> k, p |-> p, pc |-> pc])

InitDivide ==
    /\ PQStart /\ CacheStart(1, TRUE) /\ GroupIdle
    /\ orig \in {IntVal(i) : i \in 0..MaxCode}
    /\ cur = orig
    /\ trail = <<>>
    /\ scipy = FALSE

\* int_to_seq(i): s = []; prime = xprimes()
DivideStart ==
    /\ trail = <<>>
    /\ cur.kind = "int"
    /\ cur' = Dividing(cur.v.int, <<>>, 0, 0, "outer")
    /\ trail' = Append(trail, Applied("int_to_seq", 0))
    /\ UNCHANGED <<orig, scipy, pqvars, cachevars, groupvars>>

\* a turn of "while i != 1" up to the inner loop: s.append(0); p = next(prime)
DivideOuter ==
    /\ cur.kind = "dividing"
    /\ cur.v.pc = "outer"
    /\ cur.v.i # 1
    /\ cur.v.k < Len(xprimes_yield)
    /\ cur' = Dividing(cur.v.i, Append(cur.v.s, 0), cur.v.k + 1,
                     xprimes_yield[cur.v.k + 1], "inner")
    /\ UNCHANGED <<orig, trail, scipy, pqvars, cachevars, groupvars>>

\* the inner loop: at "inner" the test of "while i % p == 0", which enters
\* the body or leaves the loop; at "body" s[-1] += 1; i /= p and back to
\* the test.  Nothing ends the loop but the test; a count of MaxTurns in
\* s[-1] stands for MaxTurns or more.
DivideInner ==
    /\ cur.kind = "dividing"
    /\ \/ /\ cur.v.pc = "inner"
          /\ cur' = Dividing(cur.v.i, cur.v.s, cur.v.k, cur.v.p,
                             IF cur.v.i % cur.v.p = 0 THEN "body" ELSE "outer")
       \/ /\ cur.v.pc = "body"
          /\ cur' = Dividing(quotient(cur.v.i, cur.v.p),
                             [cur.v.s EXCEPT ![Len(cur.v.s)] =
                                 IF @ < MaxTurns THEN @ + 1 ELSE MaxTurns],
                             cur.v.k, cur.v.p, "inner")
    /\ UNCHANGED <<orig, trail, scipy, pqvars, cachevars, groupvars>>

\* return s, once i == 1
DivideReturn ==
    /\ cur.kind = "dividing"
    /\ cur.v.pc = "outer"
    /\ cur.v.i = 1
    /\ cur' = SeqVal(cur.v.s)
    /\ UNCHANGED <<orig, trail, scipy, pqvars, cachevars, groupvars>>

NextDivide ==
    \/ DivideStart
    \/ DivideOuter
    \/ DivideInner
    \/ DivideReturn

SpecDivide == InitDivide /\ [][NextDivide]_vars

\* the call is not suspended
FairSpecDivide == SpecDivide /\ WF_vars(NextDivide)

\* C26 as stated: int_to_seq returns for every integer 0, 1, 2, ...
DivisionTerminates == <>(cur.kind = "seq")

\* C26 (amended): int_to_seq returns for every integer i >= 1, with the
\* exponents of the primes up to the largest prime factor of i; for i = 0
\* it never returns, 0 being divisible by the first prime however often it
\* is divided.
DivisionTerminatesPositive ==
    /\ orig.v.int >= 1 => <>(cur.kind = "seq")
    /\ orig.v.int = 0 => [](cur.kind # "seq")
    /\ [](cur.kind = "seq" => cur = SeqVal(int_to_seq(orig.v.int)))

\* 40 = 2^3 * 5 has been decoded
DivisionTerminatesPositiveWitness ==
    /\ orig = IntVal(40)
    /\ cur = SeqVal(<<3, 0, 1>>)

=============================================================================
